---------------------------- MODULE Spec2Model ----------------------------
(***************************************************************************)
(* Blind-draw simulator (src/mapping): corpus filtering, weighted roulette *)
(* selection and the feedback log's id assignment.                         *)
(*                                                                         *)
(* JSON values are records [t, n, s]: t is the JSON/Python type, n the     *)
(* integer payload (a number's value, a bool as 0/1, a container's         *)
(* length) and s the text of a string.  Python floats are records          *)
(* [nan, v]: an integer value v, or NaN (every comparison with NaN is      *)
(* false, every sum with NaN is NaN).                                      *)
(***************************************************************************)
EXTENDS Integers, Sequences, FiniteSets, TLC

VARIABLES
    items,      \* the record list returned by load_tanjing_items
    req_key,    \* the routing key of the current round ("" before the first)
    pc,         \* position of simulator main(): menu / keyed / shown / crashed / exit;
                \* "mainloop" while the GUI's main() is in app.mainloop()
    result,     \* what the last blind_draw_once call did
    items_with_weight,  \* the argument of a direct weighted_random_choice call
    choice,     \* what that call did
    log,        \* feedback_log.jsonl: its lines, in file order
    log_exists, \* whether the file exists
    tail_open,  \* the last line has no terminating newline yet
    fb_pc,      \* per writer: position in on_save_feedback (idle / write)
    fb_id,      \* per writer: the feedback_id computed by get_next_feedback_id
    fb_seen,    \* per writer: the file as its last get_next_feedback_id call read it
    fb_err,     \* per writer: the exception that escaped the handler, "" if none
    fb_msg,     \* per writer: the last message box shown
    last_result_item, \* per writer: reference to the last drawn item, 0 for None
    var_req_key,      \* per writer: the routing key shown in the window
    comment,          \* per writer: whether the comment box holds text
    log0,       \* history: the log file as the run found it
    written,    \* history: the feedback_ids of the successful submissions, in order
    write_failed, \* history: a submission's write has failed
    scenes,     \* the taxonomy: load_system_prompts' dict while it is built,
                \* then the value it returned
    current_scene,    \* load_system_prompts: the open scene, "" for None
    current_subscene, \* load_system_prompts: the open subscene, "" for None
    doc_read,   \* history: the lines of the document read so far
    scene_order,    \* GUI: the scenes that have a radio button, in button order
    var_scene,      \* GUI: the selected scene, "" when none
    var_subscene,   \* GUI: the selected subscene's display name, "" when none
    var_option,     \* GUI: the selected letter, "" when none
    subscene_display_to_internal, \* GUI: dict display name -> subscene identifier
    drawn_key,      \* history: the key of the draw that set last_result_item
    scene_name,     \* simulator: the scene build_req_key returned last
    subscene_name,  \* simulator: the subscene build_req_key returned last
    prompt_file,    \* the taxonomy document on disk: [exists, lines]
    corpus_file,    \* tanjing.json on disk: [exists, text]
    tmp_file,       \* tanjing.json.tmp on disk: [exists, text]
    loaded,         \* how the direct calls of the three readers ended
    tool,           \* the program rewriting the corpus: [name, pc, old, data]
    returned,       \* history: the values load_system_prompts returned, in call order
    ed_data,        \* editor console: self.data, the entry list
    current_index,  \* editor console: self.current_index (0-based)
    widgets,        \* editor console: the text in each form widget
    tab,            \* editor console: index of the selected notebook tab (0 form, 1 JSON)
    json_text,      \* editor console: the text of the JSON tab
    ed_loaded,      \* history: the entry list as _load_file read it
    ed_touched,     \* history: the user typed, applied JSON or deleted
    bt_data,        \* batch editor: the list main() holds in memory
    current_start,  \* batch editor: main()'s current_start (1-based)
    batch_size,     \* batch editor: --batch-size
    bt_pc,          \* batch editor: position in main() / edit_batch
    bt_i,           \* batch editor: edit_batch's loop index i (0-based)
    bt_base,        \* history: the list as it was when the current batch began
    bt_raw,         \* history: the last answer to edit_batch's replace prompt
    bt_shown,       \* history: the (0-based) indices edit_batch presented, in order
    bt_saves        \* history: the number of save_json calls main() made

drawVars == <<items, req_key, pc, result>>
choiceVars == <<items_with_weight, choice>>
fbVars == <<log, log_exists, tail_open, fb_pc, fb_id, fb_seen, fb_err, fb_msg,
            last_result_item, var_req_key, comment, log0, written, write_failed>>
parseVars == <<scenes, current_scene, current_subscene, doc_read>>
\* the variables of the programs other than the draw and the feedback log
guiVars == <<scene_order, var_scene, var_subscene, var_option,
             subscene_display_to_internal, drawn_key>>
menuVars == <<scene_name, subscene_name>>
fileVars == <<prompt_file, corpus_file, tmp_file, loaded, tool, returned>>
edVars == <<ed_data, current_index, widgets, tab, json_text, ed_loaded, ed_touched>>
btVars == <<bt_data, current_start, batch_size, bt_pc, bt_i, bt_base, bt_raw,
           bt_shown, bt_saves>>
toolVars == <<edVars, btVars>>
otherVars == <<parseVars, guiVars, menuVars, fileVars, toolVars>>
vars == <<drawVars, choiceVars, fbVars, otherVars>>

-----------------------------------------------------------------------------
(* Bounds *)

MaxItems == 2       \* longest corpus list
MaxWeight == 2      \* largest integer weight
MaxCands == 3       \* longest list given to weighted_random_choice directly
MaxLog == 3         \* longest feedback log, in lines
MaxId == 2          \* largest feedback_id in a log the run finds
MaxDoc == 4         \* longest document parsed, in lines
MaxSaves == 1       \* most feedback records one GUI run appends
MaxCalls == 2       \* most calls of load_system_prompts in one process
MaxOrder == 5       \* longest document parsed for the order of its keys, in lines

Writers == {"w1", "w2"}     \* processes that may run the GUI on the same log

\* the routing keys the corpus holds weights for
K1 == "FanLong-a_Option_A"
K2 == "FanLong-a_Option_B"
ReqKeys == {K1, K2}

-----------------------------------------------------------------------------
(* JSON values and their Python semantics *)

JV(t, n, s) == [t |-> t, n |-> n, s |-> s]
JAbsent == JV("absent", 0, "")      \* the key is not in the mapping
JNull == JV("null", 0, "")
JTrue == JV("bool", 1, "")
JFalse == JV("bool", 0, "")
JInt(n) == JV("int", n, "")
JStr(s) == JV("str", 0, s)
JList(len) == JV("list", len, "")
JDict(len) == JV("dict", len, "")

\* Python truth value of a JSON value (bool(x))
Truthy(v) ==
    CASE v.t = "bool" -> v.n = 1
      [] v.t = "int" -> v.n # 0
      [] v.t = "str" -> v.s # ""
      [] v.t = "list" -> v.n > 0
      [] v.t = "dict" -> v.n > 0
      [] OTHER -> FALSE

\* dict.get(key, default)
DictGet(v, default) == IF v.t = "absent" THEN default ELSE v

F(n) == [nan |-> FALSE, v |-> n]
NaN == [nan |-> TRUE, v |-> 0]
FAdd(a, b) == IF a.nan \/ b.nan THEN NaN ELSE F(a.v + b.v)
FLe(a, b) == ~a.nan /\ ~b.nan /\ a.v <= b.v
FGt(a, b) == ~a.nan /\ ~b.nan /\ a.v > b.v

\* float(s) for the strings of the model: decimal digits parse, "nan"
\* parses to NaN, anything else raises ValueError
ParseFloat(s) ==
    CASE s = "0" -> [err |-> "", f |-> F(0)]
      [] s = "1" -> [err |-> "", f |-> F(1)]
      [] s = "2" -> [err |-> "", f |-> F(2)]
      [] s = "nan" -> [err |-> "", f |-> NaN]
      [] OTHER -> [err |-> "ValueError", f |-> F(0)]

\* float(x): numbers and bools convert, strings are parsed, everything
\* else raises TypeError
ToFloat(v) ==
    CASE v.t = "int" -> [err |-> "", f |-> F(v.n)]
      [] v.t = "bool" -> [err |-> "", f |-> F(v.n)]
      [] v.t = "str" -> ParseFloat(v.s)
      [] OTHER -> [err |-> "TypeError", f |-> F(0)]


-----------------------------------------------------------------------------
(* The corpus: elements of the JSON array tanjing.json *)

\* An element of the array.  t is "object" for a record; blind_safe is the
\* value under "blind_safe" (JAbsent when the key is missing); mw is the
\* value under "match_weights" and, when that is a dict, w gives the value
\* it holds for each routing key (JAbsent when the key is not in it).
Item(t, safe, mw, w) == [t |-> t, blind_safe |-> safe, mw |-> mw, w |-> w]

NoWeights == [k \in ReqKeys |-> JAbsent]
Weights(w1, w2) == [k \in ReqKeys |-> IF k = K1 THEN w1 ELSE w2]
MwLen(w) == Cardinality({k \in ReqKeys : w[k].t # "absent"})
Record(safe, w) == Item("object", safe, JDict(MwLen(w)), w)

\* records as the data model describes them: a boolean flag and integer
\* weights >= 0 for some of the keys
WellFormedRecords ==
    { Record(safe, Weights(w1, JAbsent)) :
        safe \in {JTrue, JFalse},
        w1 \in {JAbsent} \cup {JInt(n) : n \in 0..MaxWeight} }
    \cup { Record(JTrue, Weights(w1, JInt(1))) : w1 \in {JAbsent, JInt(1)} }

\* records whose flag is missing or is not a boolean (the editor console
\* stores the text of its form field, "True" or "False")
FlagVariants ==
    { Record(safe, Weights(JInt(1), JAbsent)) :
        safe \in {JAbsent, JNull, JStr("True"), JStr("False")} }

\* hand-edited records whose weight for K1, or whose whole weight map, is
\* not what the data model describes
WeightVariants ==
    { Record(JTrue, Weights(w1, JAbsent)) :
        w1 \in {JInt(-1), JTrue, JStr("2"), JStr("abc"), JStr("nan"),
                JNull, JList(1), JDict(1)} }
    \cup { Item("object", JTrue, mw, NoWeights) : mw \in {JAbsent, JNull, JList(1)} }

\* array elements that are not objects
NonObjects == { Item(t, JAbsent, JAbsent, NoWeights) : t \in {"string", "number"} }

Items == WellFormedRecords \cup FlagVariants \cup WeightVariants \cup NonObjects

SeqsUpTo(S, n) == UNION { [1..k -> S] : k \in 0..n }

-----------------------------------------------------------------------------
(* weighted_random_choice *)

\* sum(w for _, w in items_with_weight)
RECURSIVE SumWeights(_)
SumWeights(iw) ==
    IF iw = <<>> THEN F(0)
    ELSE FAdd(SumWeights(SubSeq(iw, 1, Len(iw) - 1)), iw[Len(iw)].w)

\* the values random.uniform(0, total) can return: a point of [0, total]
\* (the end point included), NaN when total is NaN
Uniform(total) ==
    IF total.nan THEN {NaN}
    ELSE IF total.v <= 0 THEN {F(0)}
    ELSE {F(k) : k \in 0..total.v}

\* Walk with the test "cumulative >= r"
RECURSIVE WalkInclusive(_, _, _, _)
WalkInclusive(iw, r, i, cumulative) ==
    IF i > Len(iw) THEN 0
    ELSE LET c == FAdd(cumulative, iw[i].w)
         IN IF ~c.nan /\ ~r.nan /\ c.v >= r.v THEN i
            ELSE WalkInclusive(iw, r, i + 1, c)

\* the loop "cumulative += w; if cumulative > r: return item", from entry i
\* with the running sum so far; 0 when the loop ends without returning
RECURSIVE Walk(_, _, _, _)
Walk(iw, r, i, cumulative) ==
    IF i > Len(iw) THEN 0
    ELSE LET c == FAdd(cumulative, iw[i].w)
         IN IF FGt(c, r) THEN i ELSE Walk(iw, r, i + 1, c)

\* WeightedRandomChoice returning the element of the list itself (the
\* pair's position) where the pair's item is meant
WeightedRandomChoiceByPos(iw, r) ==
    IF FLe(SumWeights(iw), F(0))
    THEN [outcome |-> "ValueError", pos |-> 0, ref |-> 0, fallback |-> FALSE]
    ELSE LET i == Walk(iw, r, 1, F(0))
         IN IF i # 0
            THEN [outcome |-> "item", pos |-> i, ref |-> i, fallback |-> FALSE]
            ELSE [outcome |-> "item", pos |-> Len(iw), ref |-> Len(iw),
                  fallback |-> TRUE]

\* weighted_random_choice(items_with_weight) with r the value drawn;
\* pos is the entry selected, ref the item it holds
WeightedRandomChoice(iw, r) ==
    IF FLe(SumWeights(iw), F(0))
    THEN [outcome |-> "ValueError", pos |-> 0, ref |-> 0, fallback |-> FALSE]
    ELSE LET i == Walk(iw, r, 1, F(0))
         IN IF i # 0
            THEN [outcome |-> "item", pos |-> i, ref |-> iw[i].ref, fallback |-> FALSE]
            ELSE [outcome |-> "item", pos |-> Len(iw), ref |-> iw[Len(iw)].ref,
                  fallback |-> TRUE]

-----------------------------------------------------------------------------
(* blind_draw_once *)

\* item.get("blind_safe", False)
BlindSafe(item) == DictGet(item.blind_safe, JFalse)

\* item.get("match_weights") or {}
MatchWeights(item) ==
    LET got == DictGet(item.mw, JNull)
    IN IF Truthy(got) THEN [v |-> got, w |-> item.w]
       ELSE [v |-> JDict(0), w |-> NoWeights]

\* float(match_weights.get(req_key, 0)); a key the corpus holds no weight
\* for is in no record's map
WeightValue(item, key) ==
    LET w == MatchWeights(item).w
    IN ToFloat(DictGet(IF key \in DOMAIN w THEN w[key] ELSE JAbsent, JInt(0)))

\* ItemOutcome with the test "weight_value < 0": a weight of 0 is kept
ItemOutcomeKeepZero(item, key) ==
    IF item.t # "object" THEN "AttributeError"
    ELSE IF ~Truthy(BlindSafe(item)) THEN "skip"
    ELSE IF MatchWeights(item).v.t # "dict" THEN "skip"
    ELSE IF WeightValue(item, key).err \in {"TypeError", "ValueError"} THEN "skip"
    ELSE IF WeightValue(item, key).err # "" THEN WeightValue(item, key).err
    ELSE IF FLe(WeightValue(item, key).f, F(-1)) THEN "skip"
    ELSE "append"

\* ItemOutcome with "except ValueError:" only: a TypeError leaves the loop
ItemOutcomeValueErrorOnly(item, key) ==
    IF item.t # "object" THEN "AttributeError"
    ELSE IF ~Truthy(BlindSafe(item)) THEN "skip"
    ELSE IF MatchWeights(item).v.t # "dict" THEN "skip"
    ELSE IF WeightValue(item, key).err \in {"ValueError"} THEN "skip"
    ELSE IF WeightValue(item, key).err # "" THEN WeightValue(item, key).err
    ELSE IF FLe(WeightValue(item, key).f, F(0)) THEN "skip"
    ELSE "append"

\* one round of "for item in items": "append" when (item, weight_value)
\* joins the candidates, "skip" when one of the "continue"s is taken, else
\* the exception that leaves the loop: item.get on an element that is not
\* a dict raises AttributeError, and the except clause around float()
\* catches TypeError and ValueError only
ItemOutcome(item, key) ==
    IF item.t # "object" THEN "AttributeError"
    ELSE IF ~Truthy(BlindSafe(item)) THEN "skip"
    ELSE IF MatchWeights(item).v.t # "dict" THEN "skip"
    ELSE IF WeightValue(item, key).err \in {"TypeError", "ValueError"} THEN "skip"
    ELSE IF WeightValue(item, key).err # "" THEN WeightValue(item, key).err
    ELSE IF FLe(WeightValue(item, key).f, F(0)) THEN "skip"
    ELSE "append"

\* the candidates list after the loop over items[1..i]; an entry holds
\* the reference to the item (its position in items) and weight_value
RECURSIVE Candidates(_, _, _)
Candidates(its, key, i) ==
    IF i = 0 THEN <<>>
    ELSE LET prev == Candidates(its, key, i - 1)
         IN IF ItemOutcome(its[i], key) = "append"
            THEN Append(prev, [ref |-> i, w |-> WeightValue(its[i], key).f])
            ELSE prev

\* the rounds that end in an exception
Raising(its, key) ==
    {i \in 1..Len(its) : ItemOutcome(its[i], key) \notin {"append", "skip"}}

Least(S) == CHOOSE x \in S : \A y \in S : x <= y

NoResult ==
    [outcome |-> "", ref |-> 0, pos |-> 0, candidates |-> <<>>, wrc |-> FALSE,
     fallback |-> FALSE, r |-> F(0)]

\* blind_draw_once(items, req_key), with r the random value drawn if the
\* weighted selection is reached; the first exception of the loop ends
\* the call
BlindDrawOnce(its, key, r) ==
    IF Raising(its, key) # {}
    THEN [NoResult EXCEPT !.outcome = ItemOutcome(its[Least(Raising(its, key))], key)]
    ELSE LET c == Candidates(its, key, Len(its))
         IN IF c = <<>>
            THEN [NoResult EXCEPT !.outcome = "None"]
            ELSE LET ch == WeightedRandomChoice(c, r)
                 IN [outcome |-> ch.outcome, ref |-> ch.ref, pos |-> ch.pos,
                     candidates |-> c, wrc |-> TRUE, fallback |-> ch.fallback,
                     r |-> r]

\* the simulator has no feedback log: its variables stay as they are
NoChoice ==
    [outcome |-> "", pos |-> 0, ref |-> 0, fallback |-> FALSE, r |-> F(0)]

NoFeedback ==
    /\ log = <<>>
    /\ log_exists = FALSE
    /\ tail_open = FALSE
    /\ fb_pc = [w \in Writers |-> "idle"]
    /\ fb_id = [w \in Writers |-> 0]
    /\ fb_seen = [w \in Writers |-> [exists |-> FALSE, lines |-> <<>>]]
    /\ fb_err = [w \in Writers |-> ""]
    /\ fb_msg = [w \in Writers |-> ""]
    /\ last_result_item = [w \in Writers |-> 0]
    /\ var_req_key = [w \in Writers |-> ""]
    /\ comment = [w \in Writers |-> FALSE]
    /\ log0 = [lines |-> <<>>, exists |-> FALSE, open |-> FALSE]
    /\ written = <<>>
    /\ write_failed = FALSE

\* no document is being parsed and no taxonomy is loaded
NoParse ==
    /\ scenes = <<>>
    /\ current_scene = ""
    /\ current_subscene = ""
    /\ doc_read = <<>>

\* no window is open
NoGui ==
    /\ scene_order = <<>>
    /\ var_scene = ""
    /\ var_subscene = ""
    /\ var_option = ""
    /\ subscene_display_to_internal = <<>>
    /\ drawn_key = ""

\* build_req_key has not returned yet
NoMenu ==
    /\ scene_name = ""
    /\ subscene_name = ""

\* The corpus file as text.  json.dump hands the text to the file piece by
\* piece: the opening bracket, one piece per record, the closing bracket;
\* a top-level value that is not a list is one piece.
Piece(p, item) == [p |-> p, item |-> item]

\* a piece that is punctuation carries no record
Mark(p) == Piece(p, Item("", JAbsent, JAbsent, NoWeights))

ListData(its) == [top |-> "list", items |-> its]

ObjectData == [top |-> "object", items |-> <<>>]

\* json.dumps(data): the pieces of the text, in order
Dumps(data) ==
    IF data.top = "list"
    THEN <<Mark("[")>> \o [i \in 1..Len(data.items) |-> Piece("item", data.items[i])]
             \o <<Mark("]")>>
    ELSE <<Mark("{}")>>

\* json.loads(text): [err, data]; a text that stops before its end is not JSON
Loads(text) ==
    IF text = <<Mark("{}")>> THEN [err |-> "", data |-> ObjectData]
    ELSE IF /\ Len(text) >= 2
            /\ text[1].p = "["
            /\ text[Len(text)].p = "]"
            /\ \A i \in 2..(Len(text) - 1) : text[i].p = "item"
         THEN [err |-> "",
               data |-> ListData([i \in 1..(Len(text) - 2) |-> text[i + 1].item])]
         ELSE [err |-> "JSONDecodeError", data |-> ListData(<<>>)]

\* a file on disk
NoFile == [exists |-> FALSE, text |-> <<>>]

FileOf(text) == [exists |-> TRUE, text |-> text]

WholeFile(data) == FileOf(Dumps(data))

\* none of the three readers has been called directly
NotLoaded == [prompts |-> "", items |-> "", log |-> "", next_id |-> 0]

\* no tool is rewriting the corpus
NoTool == [name |-> "", pc |-> "idle", old |-> ListData(<<>>), data |-> ListData(<<>>)]

\* the files other than the log are not looked at: the taxonomy and the
\* corpus are where main() found them, and no tool is rewriting the corpus
NoFiles ==
    /\ prompt_file = [exists |-> TRUE, lines |-> <<>>]
    /\ corpus_file = WholeFile(ListData(<<>>))
    /\ tmp_file = NoFile
    /\ loaded = NotLoaded
    /\ tool = NoTool
    /\ returned = <<>>

\* The editor console's entries.  An entry is a JSON object, modelled by
\* the values of four of its keys (JAbsent for a key it does not have):
\* three that have a form widget (FIELDS) and index, which has none.  A
\* dict carries the text str() gives for it in s.
FormKeys == {"sutra_title", "blind_safe", "match_weights"}

EntryKeys == FormKeys \cup {"index"}

\* the object {}
NoEntry == [k \in EntryKeys |-> JAbsent]

\* the form before _show_entry has filled it
NoWidgets == [k \in FormKeys |-> ""]

\* the text of the JSON tab: empty, the dump of an object, or text typed
\* by the user (not JSON, or JSON that is not an object)
JsonText(kind, obj) == [kind |-> kind, obj |-> obj]

NoText == JsonText("empty", NoEntry)

\* the editor console is not running
NoEditor ==
    /\ ed_data = <<>>
    /\ current_index = 0
    /\ widgets = NoWidgets
    /\ tab = 0
    /\ json_text = NoText
    /\ ed_loaded = <<>>
    /\ ed_touched = FALSE

\* the batch editor is not running
NoBatch ==
    /\ bt_data = <<>>
    /\ current_start = 1
    /\ batch_size = 1
    /\ bt_pc = "off"
    /\ bt_i = 0
    /\ bt_base = <<>>
    /\ bt_raw = "n"
    /\ bt_shown = <<>>
    /\ bt_saves = 0

NoOther == NoParse /\ NoGui /\ NoMenu /\ NoFiles /\ NoEditor /\ NoBatch

-----------------------------------------------------------------------------
(* simulator main(): load, then loop { build_req_key; blind_draw_once; again? } *)

InitDraw ==
    /\ items \in SeqsUpTo(Items, MaxItems)
    /\ req_key = ""
    /\ pc = "menu"
    /\ result = NoResult
    /\ items_with_weight = <<>>
    /\ choice = NoChoice
    /\ NoFeedback
    /\ NoOther

\* build_req_key returns the routing key the user composed
SimBuildReqKey ==
    /\ pc = "menu"
    /\ req_key' \in ReqKeys
    /\ pc' = "keyed"
    /\ UNCHANGED <<items, result>>
    /\ UNCHANGED <<choiceVars, fbVars, otherVars>>

\* result = blind_draw_once(items, req_key); an exception ends the program
SimDraw ==
    /\ pc = "keyed"
    /\ \E r \in Uniform(SumWeights(Candidates(items, req_key, Len(items)))) :
          result' = BlindDrawOnce(items, req_key, r)
    /\ pc' = IF result'.outcome \in {"item", "None"} THEN "shown" ELSE "crashed"
    /\ UNCHANGED <<items, req_key>>
    /\ UNCHANGED <<choiceVars, fbVars, otherVars>>

\* "是否继续抽取？": another round, or leave the loop
SimAgain ==
    /\ pc = "shown"
    /\ pc' \in {"menu", "exit"}
    /\ UNCHANGED <<items, req_key, result>>
    /\ UNCHANGED <<choiceVars, fbVars, otherVars>>

NextDraw == SimBuildReqKey \/ SimDraw \/ SimAgain

SpecDraw == InitDraw /\ [][NextDraw]_vars

-----------------------------------------------------------------------------
(* weighted_random_choice called on its own *)

\* the weights a caller may pass: integers, also 0 and negative, and NaN
ChoiceWeights == {F(n) : n \in -1..MaxWeight} \cup {NaN}

\* any list of (item, weight) pairs; the items are distinct objects
InitChoice ==
    /\ \E ws \in SeqsUpTo(ChoiceWeights, MaxCands) :
          items_with_weight = [i \in 1..Len(ws) |-> [ref |-> i, w |-> ws[i]]]
    /\ choice = NoChoice
    /\ items = <<>>
    /\ req_key = ""
    /\ pc = "menu"
    /\ result = NoResult
    /\ NoFeedback
    /\ NoOther

CallChoice ==
    /\ choice.outcome = ""
    /\ \E r \in Uniform(SumWeights(items_with_weight)) :
          LET ch == WeightedRandomChoice(items_with_weight, r)
          IN choice' = [outcome |-> ch.outcome, pos |-> ch.pos, ref |-> ch.ref,
                        fallback |-> ch.fallback, r |-> r]
    /\ UNCHANGED <<items_with_weight, drawVars, fbVars, otherVars>>

NextChoice == CallChoice

SpecChoice == InitChoice /\ [][NextChoice]_vars

-----------------------------------------------------------------------------
(* The feedback log and get_next_feedback_id *)

\* A line of feedback_log.jsonl.  kind is what json.loads makes of it:
\* "blank" (only whitespace), "invalid" (not JSON), "value" (JSON, but a
\* number, string, array, null or bool) or "object"; fid is the object's
\* "feedback_id" value (JAbsent when it has none); item and req_key are
\* the drawn item (its source and index) and routing key it records.
LogLine(kind, fid, item, key) ==
    [kind |-> kind, fid |-> fid, item |-> item, req_key |-> key]
BlankLine == LogLine("blank", JAbsent, 0, "")
InvalidLine == LogLine("invalid", JAbsent, 0, "")
ValueLine == LogLine("value", JAbsent, 0, "")
ObjectLine(fid) == LogLine("object", fid, 0, "")

JHalf(n) == JV("float", n, "")      \* the float n + 0.5, n >= 0
JInf == JV("inf", 0, "")            \* the float infinity (JSON 1e999)

\* the feedback_id values of the objects a run may find in the log
FidValues ==
    {JAbsent, JStr("2"), JStr("abc"), JHalf(1), JInf}
        \cup {JInt(n) : n \in 0..MaxId}

LogLines == {BlankLine, InvalidLine, ValueLine} \cup {ObjectLine(f) : f \in FidValues}

Max(a, b) == IF a >= b THEN a ELSE b

\* int(s) for the strings of the model
ParseInt(s) ==
    CASE s = "2" -> [err |-> "", v |-> 2]
      [] OTHER -> [err |-> "ValueError", v |-> 0]

\* int(fid): ints and bools as they are, a float truncated, infinity
\* raises OverflowError, a string is parsed, anything else raises TypeError
ToInt(v) ==
    CASE v.t = "int" -> [err |-> "", v |-> v.n]
      [] v.t = "bool" -> [err |-> "", v |-> v.n]
      [] v.t = "float" -> [err |-> "", v |-> v.n]
      [] v.t = "inf" -> [err |-> "OverflowError", v |-> 0]
      [] v.t = "str" -> ParseInt(v.s)
      [] OTHER -> [err |-> "TypeError", v |-> 0]

\* one round of "for line in f": st is [next_id, line_count, err]; err is
\* the exception that left the loop (the except clause catches
\* JSONDecodeError, ValueError, TypeError and KeyError only)
ScanLine(st, line) ==
    IF st.err # "" THEN st
    ELSE LET counted == [st EXCEPT !.line_count =
                            IF line.kind # "blank" THEN @ + 1 ELSE @]
         IN CASE line.kind \in {"blank", "invalid"} -> counted
              [] line.kind = "value" -> [counted EXCEPT !.err = "AttributeError"]
              [] OTHER ->
                   LET fid == DictGet(line.fid, JNull)
                       n == ToInt(fid)
                   IN IF fid.t = "null" THEN counted
                      ELSE IF n.err = ""
                           THEN [counted EXCEPT !.next_id = Max(@, n.v + 1)]
                           ELSE IF n.err \in {"ValueError", "TypeError"}
                                THEN counted
                                ELSE [counted EXCEPT !.err = n.err]

RECURSIVE ScanLines(_, _)
ScanLines(lg, i) ==
    IF i = 0 THEN [next_id |-> 1, line_count |-> 0, err |-> ""]
    ELSE ScanLine(ScanLines(lg, i - 1), lg[i])

\* GetNextFeedbackId returning max(next_id, line_count)
GetNextFeedbackIdNoPlusOne(exists, lg) ==
    LET st == IF exists THEN ScanLines(lg, Len(lg)) ELSE ScanLines(<<>>, 0)
    IN IF st.err # "" THEN [err |-> st.err, id |-> 0]
       ELSE [err |-> "", id |-> Max(st.next_id, st.line_count)]

\* GetNextFeedbackId returning line_count + 1, the stored ids ignored
GetNextFeedbackIdCountOnly(exists, lg) ==
    LET st == IF exists THEN ScanLines(lg, Len(lg)) ELSE ScanLines(<<>>, 0)
    IN IF st.err # "" THEN [err |-> st.err, id |-> 0]
       ELSE [err |-> "", id |-> st.line_count + 1]

\* get_next_feedback_id(): [err, id]
GetNextFeedbackId(exists, lg) ==
    LET st == IF exists THEN ScanLines(lg, Len(lg)) ELSE ScanLines(<<>>, 0)
    IN IF st.err # "" THEN [err |-> st.err, id |-> 0]
       ELSE [err |-> "", id |-> Max(st.next_id, st.line_count + 1)]

-----------------------------------------------------------------------------
(* BlindDrawApp.on_save_feedback *)

\* the file after text is appended to it: text after an unterminated last
\* line continues that line, and only whitespace before a record leaves
\* the line a JSON object
AppendText(lg, open, line) ==
    IF open /\ lg # <<>>
    THEN [lg EXCEPT ![Len(lg)] = IF @.kind = "blank" THEN line ELSE InvalidLine]
    ELSE Append(lg, line)

\* on_save_feedback up to the record it builds: the guards, the
\* confirmation dialog and the call of get_next_feedback_id
SaveBegin(w) ==
    /\ fb_pc[w] = "idle"
    /\ Len(log) <= MaxLog
    /\ IF last_result_item[w] = 0
       THEN /\ fb_msg' = [fb_msg EXCEPT ![w] = "warn_no_result"]
            /\ UNCHANGED <<fb_pc, fb_id, fb_seen, fb_err>>
       ELSE \E confirm \in BOOLEAN :
               IF ~confirm
               THEN UNCHANGED <<fb_pc, fb_id, fb_seen, fb_err, fb_msg>>
               ELSE LET next == GetNextFeedbackId(log_exists, log)
                    IN /\ fb_seen' = [fb_seen EXCEPT
                                        ![w] = [exists |-> log_exists, lines |-> log]]
                       /\ IF next.err # ""
                          THEN /\ fb_err' = [fb_err EXCEPT ![w] = next.err]
                               /\ UNCHANGED <<fb_pc, fb_id, fb_msg>>
                          ELSE /\ fb_id' = [fb_id EXCEPT ![w] = next.id]
                               /\ fb_pc' = [fb_pc EXCEPT ![w] = "write"]
                               /\ UNCHANGED <<fb_err, fb_msg>>
    /\ UNCHANGED <<log, log_exists, tail_open, last_result_item, var_req_key,
                   comment, log0, written, write_failed>>
    /\ UNCHANGED <<drawVars, choiceVars, otherVars>>

\* SaveWrite with the id computed again from the file as it is when the
\* record is appended (read, compute and append as one step)
SaveWriteLocked(w) ==
    /\ fb_pc[w] = "write"
    /\ fb_pc' = [fb_pc EXCEPT ![w] = "idle"]
    /\ LET now == GetNextFeedbackId(log_exists, log)
           id == IF now.err = "" THEN now.id ELSE fb_id[w]
           record == LogLine("object", JInt(id), last_result_item[w],
                             var_req_key[w])
       IN \E how \in {"ok", "open", "partial", "no_newline"} :
            CASE how = "ok" ->
                   /\ log' = AppendText(log, tail_open, record)
                   /\ log_exists' = TRUE
                   /\ tail_open' = FALSE
                   /\ fb_msg' = [fb_msg EXCEPT ![w] = "success"]
                   /\ comment' = [comment EXCEPT ![w] = FALSE]
                   /\ written' = Append(written, id)
                   /\ UNCHANGED write_failed
              [] how = "open" ->
                   /\ fb_msg' = [fb_msg EXCEPT ![w] = "error"]
                   /\ write_failed' = TRUE
                   /\ UNCHANGED <<log, log_exists, tail_open, comment, written>>
              [] OTHER ->
                   /\ log' = AppendText(log, tail_open,
                                IF how = "partial" THEN InvalidLine ELSE record)
                   /\ log_exists' = TRUE
                   /\ tail_open' = TRUE
                   /\ fb_msg' = [fb_msg EXCEPT ![w] = "error"]
                   /\ write_failed' = TRUE
                   /\ UNCHANGED <<comment, written>>
    /\ UNCHANGED <<fb_id, fb_seen, fb_err, last_result_item, var_req_key, log0>>
    /\ UNCHANGED <<drawVars, choiceVars, otherVars>>

\* SaveWrite with the success message shown inside the "with" block, after
\* the record is written and before its newline
SaveWriteSuccessEarly(w) ==
    /\ fb_pc[w] = "write"
    /\ fb_pc' = [fb_pc EXCEPT ![w] = "idle"]
    /\ LET record == LogLine("object", JInt(fb_id[w]), last_result_item[w],
                             var_req_key[w])
       IN \E how \in {"ok", "open", "partial", "no_newline"} :
            CASE how \in {"ok", "no_newline"} ->
                   /\ log' = AppendText(log, tail_open, record)
                   /\ log_exists' = TRUE
                   /\ tail_open' = (how = "no_newline")
                   /\ fb_msg' = [fb_msg EXCEPT ![w] = "success"]
                   /\ comment' = [comment EXCEPT ![w] = FALSE]
                   /\ written' = Append(written, fb_id[w])
                   /\ write_failed' = (write_failed \/ how = "no_newline")
              [] how = "open" ->
                   /\ fb_msg' = [fb_msg EXCEPT ![w] = "error"]
                   /\ write_failed' = TRUE
                   /\ UNCHANGED <<log, log_exists, tail_open, comment, written>>
              [] OTHER ->
                   /\ log' = AppendText(log, tail_open, InvalidLine)
                   /\ log_exists' = TRUE
                   /\ tail_open' = TRUE
                   /\ fb_msg' = [fb_msg EXCEPT ![w] = "error"]
                   /\ write_failed' = TRUE
                   /\ UNCHANGED <<comment, written>>
    /\ UNCHANGED <<fb_id, fb_seen, fb_err, last_result_item, var_req_key, log0>>
    /\ UNCHANGED <<drawVars, choiceVars, otherVars>>

\* on_save_feedback from "try:": mkdir, open for append, the two writes,
\* then the message box.  how is "ok", "open" (mkdir or open failed),
\* "partial" (the write failed after part of the record reached the
\* file) or "no_newline" (it failed after the record, before the newline).
SaveWrite(w) ==
    /\ fb_pc[w] = "write"
    /\ fb_pc' = [fb_pc EXCEPT ![w] = "idle"]
    /\ LET record == LogLine("object", JInt(fb_id[w]), last_result_item[w],
                             var_req_key[w])
       IN \E how \in {"ok", "open", "partial", "no_newline"} :
            CASE how = "ok" ->
                   /\ log' = AppendText(log, tail_open, record)
                   /\ log_exists' = TRUE
                   /\ tail_open' = FALSE
                   /\ fb_msg' = [fb_msg EXCEPT ![w] = "success"]
                   /\ comment' = [comment EXCEPT ![w] = FALSE]
                   /\ written' = Append(written, fb_id[w])
                   /\ UNCHANGED write_failed
              [] how = "open" ->
                   /\ fb_msg' = [fb_msg EXCEPT ![w] = "error"]
                   /\ write_failed' = TRUE
                   /\ UNCHANGED <<log, log_exists, tail_open, comment, written>>
              [] OTHER ->
                   /\ log' = AppendText(log, tail_open,
                                IF how = "partial" THEN InvalidLine ELSE record)
                   /\ log_exists' = TRUE
                   /\ tail_open' = TRUE
                   /\ fb_msg' = [fb_msg EXCEPT ![w] = "error"]
                   /\ write_failed' = TRUE
                   /\ UNCHANGED <<comment, written>>
    /\ UNCHANGED <<fb_id, fb_seen, fb_err, last_result_item, var_req_key, log0>>
    /\ UNCHANGED <<drawVars, choiceVars, otherVars>>

\* the per-writer state of a window in which nothing was saved yet
FbIdle ==
    /\ fb_pc = [w \in Writers |-> "idle"]
    /\ fb_id = [w \in Writers |-> 0]
    /\ fb_seen = [w \in Writers |-> [exists |-> FALSE, lines |-> <<>>]]
    /\ fb_err = [w \in Writers |-> ""]
    /\ fb_msg = [w \in Writers |-> ""]
    /\ written = <<>>
    /\ write_failed = FALSE

\* One window (w1) on a log file with any content: the file may be
\* missing; a draw may or may not have produced a result yet.
InitFeedback ==
    /\ items = <<Record(JTrue, Weights(JInt(1), JAbsent))>>
    /\ req_key = ""
    /\ pc = "menu"
    /\ result = NoResult
    /\ items_with_weight = <<>>
    /\ choice = NoChoice
    /\ log \in SeqsUpTo(LogLines, MaxLog)
    /\ log_exists \in BOOLEAN
    /\ tail_open \in BOOLEAN
    /\ ~log_exists => log = <<>>
    /\ tail_open => log # <<>>
    /\ FbIdle
    /\ \E it \in 0..Len(items) :
          /\ last_result_item = [w \in Writers |-> IF w = "w1" THEN it ELSE 0]
          /\ var_req_key = [w \in Writers |-> IF w = "w1" /\ it # 0 THEN K1 ELSE ""]
    /\ comment = [w \in Writers |-> w = "w1"]
    /\ log0 = [lines |-> log, exists |-> log_exists, open |-> tail_open]
    /\ NoOther

NextFeedback == SaveBegin("w1") \/ SaveWrite("w1")

SpecFeedback == InitFeedback /\ [][NextFeedback]_vars

-----------------------------------------------------------------------------
(* Two windows (two processes) on the same log file.  Each runs            *)
(* on_save_feedback; a process reads the file in get_next_feedback_id and  *)
(* appends to it later, and the other process may run in between.          *)

\* the lines of the logs the two windows start on
RaceLines == {BlankLine, InvalidLine, ObjectLine(JAbsent)}
                 \cup {ObjectLine(JInt(n)) : n \in 1..MaxId}

InitRace ==
    /\ items = <<Record(JTrue, Weights(JInt(1), JInt(1)))>>
    /\ req_key = ""
    /\ pc = "menu"
    /\ result = NoResult
    /\ items_with_weight = <<>>
    /\ choice = NoChoice
    /\ log \in SeqsUpTo(RaceLines, MaxLog - 1)
    /\ log_exists \in BOOLEAN
    /\ tail_open \in BOOLEAN
    /\ ~log_exists => log = <<>>
    /\ tail_open => log # <<>>
    /\ FbIdle
    /\ last_result_item = [w \in Writers |-> 1]
    /\ var_req_key = [w \in Writers |-> IF w = "w1" THEN K1 ELSE K2]
    /\ comment = [w \in Writers |-> TRUE]
    /\ log0 = [lines |-> log, exists |-> log_exists, open |-> tail_open]
    /\ NoOther

\* each window submits one feedback
NextRace ==
    \E w \in Writers :
        \/ fb_msg[w] = "" /\ fb_err[w] = "" /\ SaveBegin(w)
        \/ SaveWrite(w)

SpecRace == InitRace /\ [][NextRace]_vars

-----------------------------------------------------------------------------
(* load_system_prompts: the taxonomy parser                                *)
(*                                                                         *)
(* Text is ASCII here.  The document's full-width marks are written        *)
(* [ ] for the brackets of a scene header, { } for the full-width          *)
(* parentheses, ; for the full-width colon; ( ) : are the ASCII ones.      *)
(* Scene names are written in pinyin.                                      *)

Ch(s, i) == SubSeq(s, i, i)
IsSpace(c) == c = " "
IsDigit(c) == c \in {"0", "1", "2", "3", "4", "5", "6", "7", "8", "9"}

MinOf(S) == CHOOSE x \in S : \A y \in S : x <= y
MaxOf(S) == CHOOSE x \in S : \A y \in S : x >= y

\* str.strip()
Strip(s) ==
    LET ns == {i \in 1..Len(s) : ~IsSpace(Ch(s, i))}
    IN IF ns = {} THEN "" ELSE SubSeq(s, MinOf(ns), MaxOf(ns))

\* str.startswith(prefix)
StartsWith(s, prefix) ==
    Len(s) >= Len(prefix) /\ SubSeq(s, 1, Len(prefix)) = prefix

NoMatch == [ok |-> FALSE, g1 |-> "", g2 |-> ""]

\* big_scene_pattern.match(line):  ^\d+\.\s*[(.+?)]
\* digits, a dot, spaces, the opening bracket, then the shortest non-empty
\* text that is followed by a closing bracket
BigSceneMatch(line) ==
    LET n == Len(line)
        ds == {k \in 1..n : \A i \in 1..k : IsDigit(Ch(line, i))}
    IN IF ds = {} THEN NoMatch
       ELSE LET k == MaxOf(ds)
                after == {i \in (k + 2)..n : ~IsSpace(Ch(line, i))}
            IN IF k + 1 > n \/ Ch(line, k + 1) # "." \/ after = {} THEN NoMatch
               ELSE LET p == MinOf(after)
                        close == {j \in (p + 2)..n : Ch(line, j) = "]"}
                    IN IF Ch(line, p) # "[" \/ close = {} THEN NoMatch
                       ELSE [ok |-> TRUE,
                             g1 |-> SubSeq(line, p + 1, MinOf(close) - 1),
                             g2 |-> ""]

\* subscene_pattern.match(line):  ^([^\s]+-[^;]+);
\* the longest run without whitespace that ends before a hyphen, the
\* hyphen, then text without the colon up to the first colon
SubsceneMatch(line) ==
    LET n == Len(line)
        hs == {h \in 2..n :
                  /\ Ch(line, h) = "-"
                  /\ \A i \in 1..(h - 1) : ~IsSpace(Ch(line, i))
                  /\ h + 1 <= n /\ Ch(line, h + 1) # ";"
                  /\ \E c \in (h + 2)..n : Ch(line, c) = ";"}
    IN IF hs = {} THEN NoMatch
       ELSE LET h == MaxOf(hs)
                c == MinOf({c \in (h + 2)..n : Ch(line, c) = ";"})
            IN [ok |-> TRUE, g1 |-> SubSeq(line, 1, c - 1), g2 |-> ""]

\* option_pattern.match(line):  ^Option_([ABC])[{(].*?[})][:;]\s*(.+)$
\* g1 is the letter, g2 the text after the colon and the spaces after it
OptionMatch(line) ==
    LET n == Len(line)
        ks == {k \in 10..(n - 2) :
                  /\ Ch(line, k) \in {"}", ")"}
                  /\ Ch(line, k + 1) \in {":", ";"}}
    IN IF n < 12 \/ SubSeq(line, 1, 7) # "Option_"
          \/ Ch(line, 8) \notin {"A", "B", "C"}
          \/ Ch(line, 9) \notin {"{", "("}
          \/ ks = {}
       THEN NoMatch
       ELSE LET k == MinOf(ks)
                text == {i \in (k + 2)..n : ~IsSpace(Ch(line, i))}
            IN [ok |-> TRUE, g1 |-> Ch(line, 8),
                g2 |-> IF text = {} THEN Ch(line, n)
                       ELSE SubSeq(line, MinOf(text), n)]

\* A dict keeps its keys in insertion order: a sequence of entries [k, v]
Keys(d) == [i \in 1..Len(d) |-> d[i].k]
Has(d, key) == \E i \in 1..Len(d) : d[i].k = key
IndexOf(d, key) == CHOOSE i \in 1..Len(d) : d[i].k = key
\* d[key], for a key of d
Get(d, key) == d[IndexOf(d, key)].v
\* Put that moves a key it overwrites to the end (del d[key]; d[key] = value)
PutMovesToEnd(d, key, value) ==
    Append(SelectSeq(d, LAMBDA e : e.k # key), [k |-> key, v |-> value])

\* d[key] = value: an existing key keeps its place
Put(d, key, value) ==
    IF Has(d, key) THEN [d EXCEPT ![IndexOf(d, key)].v = value]
    ELSE Append(d, [k |-> key, v |-> value])
\* d.setdefault(key, value)
SetDefault(d, key, value) == IF Has(d, key) THEN d ELSE Put(d, key, value)

\* the parser's state: scenes is the taxonomy built so far, a dict
\* scene -> (dict subscene -> (dict letter -> phrase)); current_scene and
\* current_subscene are "" while they are None (no name is empty: the
\* patterns' groups hold at least one character)
ParserState(sc, cur_scene, cur_sub) ==
    [scenes |-> sc, current_scene |-> cur_scene, current_subscene |-> cur_sub]

ParserStart == ParserState(<<>>, "", "")

\* ParseLine that registers every subscene-shaped line under the open
\* scene, whatever its prefix
ParseLineAnyPrefix(st, raw_line) ==
    LET line == Strip(raw_line)
        m_big == BigSceneMatch(line)
        m_sub == SubsceneMatch(line)
        m_opt == OptionMatch(line)
        scene == st.current_scene
        subscene == st.current_subscene
    IN IF line = "" THEN st
       ELSE IF m_big.ok
       THEN ParserState(SetDefault(st.scenes, m_big.g1, <<>>), m_big.g1, "")
       ELSE IF m_sub.ok /\ scene # ""
       THEN ParserState(
                Put(st.scenes, scene,
                    SetDefault(Get(st.scenes, scene), m_sub.g1, <<>>)),
                scene, m_sub.g1)
       ELSE IF m_opt.ok /\ scene # "" /\ subscene # ""
       THEN [st EXCEPT !.scenes =
                Put(@, scene, Put(Get(@, scene), subscene,
                       Put(Get(Get(@, scene), subscene), m_opt.g1,
                           Strip(m_opt.g2))))]
       ELSE st

\* ParseLine in which a line that matches no pattern closes the subscene
ParseLineProseCloses(st, raw_line) ==
    LET line == Strip(raw_line)
        m_big == BigSceneMatch(line)
        m_sub == SubsceneMatch(line)
        m_opt == OptionMatch(line)
        scene == st.current_scene
        subscene == st.current_subscene
    IN IF line = "" THEN st
       ELSE IF m_big.ok
       THEN ParserState(SetDefault(st.scenes, m_big.g1, <<>>), m_big.g1, "")
       ELSE IF m_sub.ok /\ scene # ""
       THEN IF StartsWith(m_sub.g1, scene \o "-")
            THEN ParserState(
                     Put(st.scenes, scene,
                         SetDefault(Get(st.scenes, scene), m_sub.g1, <<>>)),
                     scene, m_sub.g1)
            ELSE st
       ELSE IF m_opt.ok /\ scene # "" /\ subscene # ""
       THEN [st EXCEPT !.scenes =
                Put(@, scene, Put(Get(@, scene), subscene,
                       Put(Get(Get(@, scene), subscene), m_opt.g1,
                           Strip(m_opt.g2))))]
       ELSE IF ~m_sub.ok /\ ~m_opt.ok THEN [st EXCEPT !.current_subscene = ""]
       ELSE st

\* ParseLine in which a subscene-shaped line of another scene closes the
\* open subscene
ParseLineRefusalCloses(st, raw_line) ==
    LET line == Strip(raw_line)
        m_big == BigSceneMatch(line)
        m_sub == SubsceneMatch(line)
        m_opt == OptionMatch(line)
        scene == st.current_scene
        subscene == st.current_subscene
    IN IF line = "" THEN st
       ELSE IF m_big.ok
       THEN ParserState(SetDefault(st.scenes, m_big.g1, <<>>), m_big.g1, "")
       ELSE IF m_sub.ok /\ scene # ""
       THEN IF StartsWith(m_sub.g1, scene \o "-")
            THEN ParserState(
                     Put(st.scenes, scene,
                         SetDefault(Get(st.scenes, scene), m_sub.g1, <<>>)),
                     scene, m_sub.g1)
            ELSE [st EXCEPT !.current_subscene = ""]
       ELSE IF m_opt.ok /\ scene # "" /\ subscene # ""
       THEN [st EXCEPT !.scenes =
                Put(@, scene, Put(Get(@, scene), subscene,
                       Put(Get(Get(@, scene), subscene), m_opt.g1,
                           Strip(m_opt.g2))))]
       ELSE st

\* ParseLine whose scene header registers the scene anew, without the
\* subscenes it had
ParseLineHeaderResets(st, raw_line) ==
    LET line == Strip(raw_line)
        m_big == BigSceneMatch(line)
        m_sub == SubsceneMatch(line)
        m_opt == OptionMatch(line)
        scene == st.current_scene
        subscene == st.current_subscene
    IN IF line = "" THEN st
       ELSE IF m_big.ok
       THEN ParserState(Put(st.scenes, m_big.g1, <<>>), m_big.g1, "")
       ELSE IF m_sub.ok /\ scene # ""
       THEN IF StartsWith(m_sub.g1, scene \o "-")
            THEN ParserState(
                     Put(st.scenes, scene,
                         SetDefault(Get(st.scenes, scene), m_sub.g1, <<>>)),
                     scene, m_sub.g1)
            ELSE st
       ELSE IF m_opt.ok /\ scene # "" /\ subscene # ""
       THEN [st EXCEPT !.scenes =
                Put(@, scene, Put(Get(@, scene), subscene,
                       Put(Get(Get(@, scene), subscene), m_opt.g1,
                           Strip(m_opt.g2))))]
       ELSE st

\* one round of "for raw_line in f"
ParseLine(st, raw_line) ==
    LET line == Strip(raw_line)
        m_big == BigSceneMatch(line)
        m_sub == SubsceneMatch(line)
        m_opt == OptionMatch(line)
        scene == st.current_scene
        subscene == st.current_subscene
    IN IF line = "" THEN st
       ELSE IF m_big.ok
       THEN ParserState(SetDefault(st.scenes, m_big.g1, <<>>), m_big.g1, "")
       ELSE IF m_sub.ok /\ scene # ""
       THEN IF StartsWith(m_sub.g1, scene \o "-")
            THEN ParserState(
                     Put(st.scenes, scene,
                         SetDefault(Get(st.scenes, scene), m_sub.g1, <<>>)),
                     scene, m_sub.g1)
            ELSE st
       ELSE IF m_opt.ok /\ scene # "" /\ subscene # ""
       THEN [st EXCEPT !.scenes =
                Put(@, scene, Put(Get(@, scene), subscene,
                       Put(Get(Get(@, scene), subscene), m_opt.g1,
                           Strip(m_opt.g2))))]
       ELSE st

\* the state after the lines doc[1..i]
RECURSIVE ParseLines(_, _)
ParseLines(doc, i) ==
    IF i = 0 THEN ParserStart ELSE ParseLine(ParseLines(doc, i - 1), doc[i])

\* load_system_prompts(path) for a file with the lines doc
LoadSystemPrompts(doc) == ParseLines(doc, Len(doc)).scenes

\* the lines of the documents parsed: two scene headers, a subscene
\* header of each scene, option lines (the second with ASCII marks and
\* spaces around it, the third with a hyphen in its annotation), an
\* empty line, a line of no recognized shape, and a scene header written
\* without a space whose name has a hyphen and is followed by a colon
DocLines ==
    {"1. [FanLong]", "2. [ChenFu]", "FanLong-a;", "ChenFu-b;",
     "Option_A{x};p", "  Option_A(x): q ", "Option_B{x-y};p",
     "", "Option_D{x};p", "1.[FanLong-a];"}

InitParse ==
    /\ scenes = <<>>
    /\ current_scene = ""
    /\ current_subscene = ""
    /\ doc_read = <<>>
    /\ items = <<>>
    /\ req_key = ""
    /\ pc = "menu"
    /\ result = NoResult
    /\ items_with_weight = <<>>
    /\ choice = NoChoice
    /\ NoFeedback
    /\ NoGui
    /\ NoMenu
    /\ NoEditor
    /\ NoBatch
    /\ NoFiles

\* the loop reads the next line of the file
ReadLine ==
    /\ Len(doc_read) < MaxDoc
    /\ \E raw_line \in DocLines :
          LET st == ParseLine(ParserState(scenes, current_scene, current_subscene),
                              raw_line)
          IN /\ scenes' = st.scenes
             /\ current_scene' = st.current_scene
             /\ current_subscene' = st.current_subscene
             /\ doc_read' = Append(doc_read, raw_line)
    /\ UNCHANGED <<drawVars, choiceVars, fbVars, guiVars, menuVars, fileVars, toolVars>>

NextParse == ReadLine

SpecParse == InitParse /\ [][NextParse]_vars

-----------------------------------------------------------------------------
(* The three-level selection: build_req_key (simulator) and the GUI's      *)
(* radio buttons                                                           *)

\* the fixed scene order of build_req_key and BlindDrawApp.__init__
CanonicalScenes == <<"FanLong", "ChenFu", "ChenYuan", "FangCun">>

OptionLetters == <<"A", "B", "C">>

\* AvailableScenes that keeps the document's order of the scenes
AvailableScenesDocOrder(sc) ==
    SelectSeq(Keys(sc), LAMBDA s : \E i \in 1..Len(CanonicalScenes) :
                                      CanonicalScenes[i] = s)

\* [s for s in scene_order if s in scenes]
AvailableScenes(sc) == SelectSeq(CanonicalScenes, LAMBDA s : Has(sc, s))

\* name.split("-", 1)[1] if "-" in name else name
DisplayName(name) ==
    LET hs == {i \in 1..Len(name) : Ch(name, i) = "-"}
    IN IF hs = {} THEN name ELSE SubSeq(name, MinOf(hs) + 1, Len(name))

\* dict(zip(display_names, subscene_names)) for names[1..i]
RECURSIVE DisplayToInternal(_, _)
DisplayToInternal(names, i) ==
    IF i = 0 THEN <<>>
    ELSE Put(DisplayToInternal(names, i - 1), DisplayName(names[i]), names[i])

\* self.scenes.get(scene, {})
SubsceneMap(sc, scene) == IF Has(sc, scene) THEN Get(sc, scene) ELSE <<>>

\* ReqKeyOf that needs no option letter
ReqKeyOfNoLetter(scene, display_name, letter, d2i) ==
    LET internal_name == IF display_name # "" /\ Has(d2i, display_name)
                         THEN Get(d2i, display_name) ELSE ""
    IN IF scene # "" /\ internal_name # ""
       THEN internal_name \o "_Option_" \o letter
       ELSE ""

\* the key _update_req_key computes: internal_name is "" for None
ReqKeyOf(scene, display_name, letter, d2i) ==
    LET internal_name == IF display_name # "" /\ Has(d2i, display_name)
                         THEN Get(d2i, display_name) ELSE ""
    IN IF scene # "" /\ internal_name # "" /\ letter # ""
       THEN internal_name \o "_Option_" \o letter
       ELSE ""

\* build_req_key(scenes): the user's three menu choices are the existential
\* variables; choose_from_menu raises ValueError on an empty menu, which
\* main() does not catch
BuildReqKey ==
    /\ pc = "menu"
    /\ LET available_scenes == AvailableScenes(scenes)
       IN IF available_scenes = <<>>
          THEN /\ pc' = "crashed"
               /\ UNCHANGED <<req_key, scene_name, subscene_name>>
          ELSE \E scene_idx \in 1..Len(available_scenes) :
                 LET scene == available_scenes[scene_idx]
                     subscene_names == Keys(Get(scenes, scene))
                 IN IF subscene_names = <<>>
                    THEN /\ pc' = "crashed"
                         /\ UNCHANGED <<req_key, scene_name, subscene_name>>
                    ELSE \E sub_idx \in 1..Len(subscene_names),
                            opt_idx \in 1..Len(OptionLetters) :
                           /\ scene_name' = scene
                           /\ subscene_name' = subscene_names[sub_idx]
                           /\ req_key' = subscene_names[sub_idx] \o "_Option_"
                                             \o OptionLetters[opt_idx]
                           /\ pc' = "keyed"
    /\ UNCHANGED <<items, result>>
    /\ UNCHANGED <<choiceVars, fbVars, parseVars, guiVars, fileVars, toolVars>>

\* the window whose selection is modelled
Win == "w1"

\* a scene radio button is clicked: var_scene is set, then _on_scene_changed
OnSceneChanged ==
    /\ pc = "mainloop"
    /\ fb_pc[Win] = "idle"
    /\ \E i \in 1..Len(scene_order) :
          LET scene == scene_order[i]
              subscene_names == Keys(SubsceneMap(scenes, scene))
              d2i == DisplayToInternal(subscene_names, Len(subscene_names))
          IN /\ var_scene' = scene
             /\ subscene_display_to_internal' = d2i
             /\ var_subscene' = ""
             /\ var_option' = IF subscene_names = <<>> THEN var_option ELSE ""
             /\ var_req_key' = [var_req_key EXCEPT
                                  ![Win] = ReqKeyOf(scene, "", var_option', d2i)]
    /\ UNCHANGED <<scene_order, drawn_key>>
    /\ UNCHANGED <<log, log_exists, tail_open, fb_pc, fb_id, fb_seen, fb_err,
                   fb_msg, last_result_item, comment, log0, written, write_failed>>
    /\ UNCHANGED <<drawVars, choiceVars, parseVars, menuVars, fileVars, toolVars>>

\* a subscene radio button is clicked: var_subscene is set to its display
\* name, then _on_subscene_changed
OnSubsceneChanged ==
    /\ pc = "mainloop"
    /\ fb_pc[Win] = "idle"
    /\ \E i \in 1..Len(subscene_display_to_internal) :
          LET display_name == subscene_display_to_internal[i].k
          IN /\ var_subscene' = display_name
             /\ var_option' = ""
             /\ var_req_key' = [var_req_key EXCEPT
                                  ![Win] = ReqKeyOf(var_scene, display_name, "",
                                                    subscene_display_to_internal)]
    /\ UNCHANGED <<scene_order, var_scene, subscene_display_to_internal, drawn_key>>
    /\ UNCHANGED <<log, log_exists, tail_open, fb_pc, fb_id, fb_seen, fb_err,
                   fb_msg, last_result_item, comment, log0, written, write_failed>>
    /\ UNCHANGED <<drawVars, choiceVars, parseVars, menuVars, fileVars, toolVars>>

\* an option radio button is clicked: var_option is set, then _update_req_key
OnOptionSelected ==
    /\ pc = "mainloop"
    /\ fb_pc[Win] = "idle"
    /\ \E i \in 1..Len(OptionLetters) :
          /\ var_option' = OptionLetters[i]
          /\ var_req_key' = [var_req_key EXCEPT
                               ![Win] = ReqKeyOf(var_scene, var_subscene,
                                                 OptionLetters[i],
                                                 subscene_display_to_internal)]
    /\ UNCHANGED <<scene_order, var_scene, var_subscene,
                   subscene_display_to_internal, drawn_key>>
    /\ UNCHANGED <<log, log_exists, tail_open, fb_pc, fb_id, fb_seen, fb_err,
                   fb_msg, last_result_item, comment, log0, written, write_failed>>
    /\ UNCHANGED <<drawVars, choiceVars, parseVars, menuVars, fileVars, toolVars>>

\* OnDrawClicked drawing without replacement: the record drawn is taken
\* out of self.items
OnDrawClickedRemoves ==
    /\ pc = "mainloop"
    /\ fb_pc[Win] = "idle"
    /\ LET key == ReqKeyOf(var_scene, var_subscene, var_option,
                           subscene_display_to_internal)
       IN /\ var_req_key' = [var_req_key EXCEPT ![Win] = key]
          /\ IF key = ""
             THEN /\ fb_msg' = [fb_msg EXCEPT ![Win] = "warn_no_key"]
                  /\ UNCHANGED <<req_key, result, last_result_item, drawn_key, fb_err, items>>
             ELSE /\ req_key' = key
                  /\ \E r \in Uniform(SumWeights(Candidates(items, key, Len(items)))) :
                        result' = BlindDrawOnce(items, key, r)
                  /\ IF result'.outcome = "item"
                     THEN /\ last_result_item' =
                                [last_result_item EXCEPT ![Win] = result'.ref]
                          /\ drawn_key' = key
                          /\ items' = [i \in 1..(Len(items) - 1) |->
                                         IF i < result'.ref THEN items[i]
                                         ELSE items[i + 1]]
                          /\ UNCHANGED <<fb_msg, fb_err>>
                     ELSE IF result'.outcome = "None"
                     THEN /\ fb_msg' = [fb_msg EXCEPT ![Win] = "info_no_item"]
                          /\ UNCHANGED <<last_result_item, drawn_key, fb_err, items>>
                     ELSE /\ fb_err' = [fb_err EXCEPT ![Win] = result'.outcome]
                          /\ UNCHANGED <<last_result_item, drawn_key, fb_msg, items>>
    /\ UNCHANGED pc
    /\ UNCHANGED <<log, log_exists, tail_open, fb_pc, fb_id, fb_seen, comment,
                   log0, written, write_failed>>
    /\ UNCHANGED <<scene_order, var_scene, var_subscene, var_option,
                   subscene_display_to_internal>>
    /\ UNCHANGED <<choiceVars, parseVars, menuVars, fileVars, toolVars>>

\* on_draw_clicked: _update_req_key, the guard on the key, blind_draw_once;
\* req_key and result record the call made.  An exception of the call ends
\* the callback.
OnDrawClicked ==
    /\ pc = "mainloop"
    /\ fb_pc[Win] = "idle"
    /\ LET key == ReqKeyOf(var_scene, var_subscene, var_option,
                           subscene_display_to_internal)
       IN /\ var_req_key' = [var_req_key EXCEPT ![Win] = key]
          /\ IF key = ""
             THEN /\ fb_msg' = [fb_msg EXCEPT ![Win] = "warn_no_key"]
                  /\ UNCHANGED <<req_key, result, last_result_item, drawn_key, fb_err>>
             ELSE /\ req_key' = key
                  /\ \E r \in Uniform(SumWeights(Candidates(items, key, Len(items)))) :
                        result' = BlindDrawOnce(items, key, r)
                  /\ IF result'.outcome = "item"
                     THEN /\ last_result_item' =
                                [last_result_item EXCEPT ![Win] = result'.ref]
                          /\ drawn_key' = key
                          /\ UNCHANGED <<fb_msg, fb_err>>
                     ELSE IF result'.outcome = "None"
                     THEN /\ fb_msg' = [fb_msg EXCEPT ![Win] = "info_no_item"]
                          /\ UNCHANGED <<last_result_item, drawn_key, fb_err>>
                     ELSE /\ fb_err' = [fb_err EXCEPT ![Win] = result'.outcome]
                          /\ UNCHANGED <<last_result_item, drawn_key, fb_msg>>
    /\ UNCHANGED <<items, pc>>
    /\ UNCHANGED <<log, log_exists, tail_open, fb_pc, fb_id, fb_seen, comment,
                   log0, written, write_failed>>
    /\ UNCHANGED <<scene_order, var_scene, var_subscene, var_option,
                   subscene_display_to_internal>>
    /\ UNCHANGED <<choiceVars, parseVars, menuVars, fileVars, toolVars>>

\* the lines of the taxonomy documents of the selection: headers of two
\* canonical scenes and of a scene outside the canonical list, subscene
\* headers of each, and an option line
SelectLines ==
    {"1. [FanLong]", "2. [ChenFu]", "5. [ZaXiang]",
     "FanLong-a;", "FanLong-b;", "ChenFu-b;", "ZaXiang-c;",
     "Option_A{x};p"}

\* the taxonomies load_system_prompts returns for these documents
Taxonomies == {LoadSystemPrompts(doc) : doc \in SeqsUpTo(SelectLines, MaxDoc)}

\* Either program after its main() has loaded the taxonomy and the corpus:
\* the simulator before its first menu, or the GUI's window as __init__
\* leaves it
InitSelect ==
    /\ scenes \in Taxonomies
    /\ current_scene = ""
    /\ current_subscene = ""
    /\ doc_read = <<>>
    /\ items = <<Record(JTrue, Weights(JInt(1), JAbsent))>>
    /\ req_key = ""
    /\ pc \in {"menu", "mainloop"}
    /\ result = NoResult
    /\ items_with_weight = <<>>
    /\ choice = NoChoice
    /\ NoFeedback
    /\ scene_order = IF pc = "mainloop" THEN AvailableScenes(scenes) ELSE <<>>
    /\ var_scene = ""
    /\ var_subscene = ""
    /\ var_option = ""
    /\ subscene_display_to_internal = <<>>
    /\ drawn_key = ""
    /\ NoMenu
    /\ NoEditor
    /\ NoBatch
    /\ NoFiles

NextSelect ==
    \/ BuildReqKey
    \/ SimDraw
    \/ SimAgain
    \/ OnSceneChanged
    \/ OnSubsceneChanged
    \/ OnOptionSelected
    \/ OnDrawClicked

SpecSelect == InitSelect /\ [][NextSelect]_vars

-----------------------------------------------------------------------------
(* The GUI as a whole: one window with its selection, draw and feedback    *)
(* handlers, on a log file that other runs may have written before         *)

\* the taxonomy of the window: one scene with one subscene
GuiDocument == <<"1. [FanLong]", "FanLong-a;", "Option_A{x};p">>

\* the corpus of the window: a record drawn under K1 and one under K2
GuiItems ==
    <<Record(JTrue, Weights(JInt(1), JAbsent)),
      Record(JTrue, Weights(JAbsent, JInt(1)))>>

\* the lines of the log the window starts on
GuiLogLines == {InvalidLine, ObjectLine(JInt(1))}

InitGui ==
    /\ scenes = LoadSystemPrompts(GuiDocument)
    /\ current_scene = ""
    /\ current_subscene = ""
    /\ doc_read = GuiDocument
    /\ items = GuiItems
    /\ req_key = ""
    /\ pc = "mainloop"
    /\ result = NoResult
    /\ items_with_weight = <<>>
    /\ choice = NoChoice
    /\ log \in SeqsUpTo(GuiLogLines, 1)
    /\ log_exists \in BOOLEAN
    /\ tail_open \in BOOLEAN
    /\ ~log_exists => log = <<>>
    /\ tail_open => log # <<>>
    /\ FbIdle
    /\ last_result_item = [w \in Writers |-> 0]
    /\ var_req_key = [w \in Writers |-> ""]
    /\ comment = [w \in Writers |-> w = Win]
    /\ log0 = [lines |-> log, exists |-> log_exists, open |-> tail_open]
    /\ scene_order = AvailableScenes(scenes)
    /\ var_scene = ""
    /\ var_subscene = ""
    /\ var_option = ""
    /\ subscene_display_to_internal = <<>>
    /\ drawn_key = ""
    /\ NoMenu
    /\ NoEditor
    /\ NoBatch
    /\ NoFiles

NextGui ==
    \/ OnSceneChanged
    \/ OnSubsceneChanged
    \/ OnOptionSelected
    \/ OnDrawClicked
    \/ Len(written) < MaxSaves /\ Len(log) < Len(log0.lines) + MaxSaves
           /\ SaveBegin(Win)
    \/ SaveWrite(Win)

SpecGui == InitGui /\ [][NextGui]_vars

-----------------------------------------------------------------------------
(* The three readers called on files that may be missing: load_system_prompts, *)
(* load_tanjing_items and get_next_feedback_id                              *)

\* load_system_prompts(path): [err, scenes]
LoadSystemPromptsFile(file) ==
    IF ~file.exists
    THEN [err |-> "FileNotFoundError", scenes |-> <<>>]
    ELSE [err |-> "", scenes |-> LoadSystemPrompts(file.lines)]

\* load_tanjing_items returning an empty corpus for a missing file
LoadTanjingItemsDefault(file) ==
    IF ~file.exists
    THEN [err |-> "", items |-> <<>>]
    ELSE LET d == Loads(file.text)
         IN IF d.err # "" THEN [err |-> d.err, items |-> <<>>]
            ELSE IF d.data.top # "list" THEN [err |-> "ValueError", items |-> <<>>]
            ELSE [err |-> "", items |-> d.data.items]

\* load_tanjing_items(path): [err, items]
LoadTanjingItems(file) ==
    IF ~file.exists
    THEN [err |-> "FileNotFoundError", items |-> <<>>]
    ELSE LET d == Loads(file.text)
         IN IF d.err # "" THEN [err |-> d.err, items |-> <<>>]
            ELSE IF d.data.top # "list" THEN [err |-> "ValueError", items |-> <<>>]
            ELSE [err |-> "", items |-> d.data.items]

\* the outcome of a call as loaded keeps it
Outcome(err) == IF err = "" THEN "ok" ELSE err

\* the records of the corpus files
CorpusRecords ==
    {Record(JTrue, Weights(JInt(1), JAbsent)), Record(JTrue, Weights(JAbsent, JInt(1)))}

\* the corpora: lists of records
Corpora == {ListData(its) : its \in SeqsUpTo(CorpusRecords, MaxItems)}

\* the texts tanjing.json may hold: a corpus, a JSON object, an empty file
\* and a text that stops after its first piece
CorpusTexts ==
    {Dumps(d) : d \in Corpora \cup {ObjectData}} \cup {<<>>, <<Mark("[")>>}

\* the documents the taxonomy file may hold
PromptDocuments == {<<>>, GuiDocument, <<"1. [ChenFu]", "ZaXiang-a;">>}

InitLoad ==
    /\ prompt_file \in {[exists |-> FALSE, lines |-> <<>>]}
                          \cup {[exists |-> TRUE, lines |-> d] : d \in PromptDocuments}
    /\ corpus_file \in {NoFile} \cup {FileOf(t) : t \in CorpusTexts}
    /\ tmp_file = NoFile
    /\ loaded = NotLoaded
    /\ tool = NoTool
    /\ returned = <<>>
    /\ log \in SeqsUpTo(GuiLogLines, 1)
    /\ log_exists \in BOOLEAN
    /\ ~log_exists => log = <<>>
    /\ tail_open = FALSE
    /\ FbIdle
    /\ last_result_item = [w \in Writers |-> 0]
    /\ var_req_key = [w \in Writers |-> ""]
    /\ comment = [w \in Writers |-> FALSE]
    /\ log0 = [lines |-> log, exists |-> log_exists, open |-> tail_open]
    /\ items = <<>>
    /\ req_key = ""
    /\ pc = "menu"
    /\ result = NoResult
    /\ items_with_weight = <<>>
    /\ choice = NoChoice
    /\ NoParse
    /\ NoGui
    /\ NoMenu
    /\ NoEditor
    /\ NoBatch

\* scenes = load_system_prompts(SYSTEM_PROMPT_PATH)
CallLoadSystemPrompts ==
    /\ loaded.prompts = ""
    /\ LET r == LoadSystemPromptsFile(prompt_file)
       IN /\ loaded' = [loaded EXCEPT !.prompts = Outcome(r.err)]
          /\ scenes' = IF r.err = "" THEN r.scenes ELSE scenes
    /\ UNCHANGED <<current_scene, current_subscene, doc_read>>
    /\ UNCHANGED <<prompt_file, corpus_file, tmp_file, tool, returned>>
    /\ UNCHANGED <<drawVars, choiceVars, fbVars, guiVars, menuVars, toolVars>>

\* items = load_tanjing_items(TANJING_PATH)
CallLoadTanjingItems ==
    /\ loaded.items = ""
    /\ LET r == LoadTanjingItems(corpus_file)
       IN /\ loaded' = [loaded EXCEPT !.items = Outcome(r.err)]
          /\ items' = IF r.err = "" THEN r.items ELSE items
    /\ UNCHANGED <<req_key, pc, result>>
    /\ UNCHANGED <<prompt_file, corpus_file, tmp_file, tool, returned>>
    /\ UNCHANGED <<choiceVars, fbVars, parseVars, guiVars, menuVars, toolVars>>

\* feedback_id = get_next_feedback_id()
CallGetNextFeedbackId ==
    /\ loaded.log = ""
    /\ LET r == GetNextFeedbackId(log_exists, log)
       IN loaded' = [loaded EXCEPT !.log = Outcome(r.err), !.next_id = r.id]
    /\ UNCHANGED <<prompt_file, corpus_file, tmp_file, tool, returned>>
    /\ UNCHANGED <<drawVars, choiceVars, fbVars, parseVars, guiVars, menuVars, toolVars>>

NextLoad == CallLoadSystemPrompts \/ CallLoadTanjingItems \/ CallGetNextFeedbackId

SpecLoad == InitLoad /\ [][NextLoad]_vars

-----------------------------------------------------------------------------

(* The tools that rewrite tanjing.json: the editor console (save, delete),  *)
(* the batch editor (save) and add_source_and_index.  A run is one rewrite, *)
(* which may be interrupted between any two of its steps.                   *)

\* the tools whose write opens tanjing.json itself with mode "w"
InPlaceTools == {"editor_save", "editor_delete", "add_source_and_index"}

ToolNames == InPlaceTools \cup {"batch_save"}

\* del self.data[idx]
Del(its, idx) == [i \in 1..(Len(its) - 1) |-> IF i < idx THEN its[i] ELSE its[i + 1]]

\* the data a tool is about to write over a corpus holding old: the
\* editors write the list as edited, the delete handler the list without
\* one entry, add_source_and_index the list it read (the source and index
\* fields it sets are not among the fields of Item)
NewData(name, old) ==
    CASE name = "editor_delete" ->
           {ListData(Del(old.items, idx)) : idx \in 1..Len(old.items)}
      [] name = "add_source_and_index" -> {old}
      [] OTHER -> {d \in Corpora : Len(d.items) = Len(old.items)}

InitRewrite ==
    /\ \E name \in ToolNames, old \in Corpora :
          \E data \in NewData(name, old) :
             /\ tool = [name |-> name, pc |-> "start", old |-> old, data |-> data]
             /\ corpus_file = WholeFile(old)
    /\ tmp_file = NoFile
    /\ prompt_file = [exists |-> TRUE, lines |-> <<>>]
    /\ loaded = NotLoaded
    /\ returned = <<>>
    /\ items = <<>>
    /\ req_key = ""
    /\ pc = "menu"
    /\ result = NoResult
    /\ items_with_weight = <<>>
    /\ choice = NoChoice
    /\ NoFeedback
    /\ NoParse
    /\ NoGui
    /\ NoMenu
    /\ NoEditor
    /\ NoBatch

RewriteFrame ==
    /\ UNCHANGED <<prompt_file, loaded, returned>>
    /\ UNCHANGED <<drawVars, choiceVars, fbVars, parseVars, guiVars, menuVars, toolVars>>

\* open(TANJING_PATH, "w") and Path.write_text's open: the file is emptied
OpenInPlace ==
    /\ tool.name \in InPlaceTools
    /\ tool.pc = "start"
    /\ corpus_file' = FileOf(<<>>)
    /\ tool' = [tool EXCEPT !.pc = "writing"]
    /\ UNCHANGED tmp_file
    /\ RewriteFrame

\* json.dump(data, f): the next piece of the text reaches tanjing.json
WritePiece ==
    /\ tool.name \in {"editor_save", "editor_delete"}
    /\ tool.pc = "writing"
    /\ Len(corpus_file.text) < Len(Dumps(tool.data))
    /\ corpus_file' = FileOf(Append(corpus_file.text,
                                    Dumps(tool.data)[Len(corpus_file.text) + 1]))
    /\ UNCHANGED <<tool, tmp_file>>
    /\ RewriteFrame

\* path.write_text(json.dumps(data)): the text is written by one call
WriteText ==
    /\ tool.name = "add_source_and_index"
    /\ tool.pc = "writing"
    /\ corpus_file.text = <<>>
    /\ corpus_file' = FileOf(Dumps(tool.data))
    /\ tool' = [tool EXCEPT !.pc = "done"]
    /\ UNCHANGED tmp_file
    /\ RewriteFrame

\* the with block of the editor console's save_json ends
CloseInPlace ==
    /\ tool.name \in {"editor_save", "editor_delete"}
    /\ tool.pc = "writing"
    /\ corpus_file.text = Dumps(tool.data)
    /\ tool' = [tool EXCEPT !.pc = "done"]
    /\ UNCHANGED <<corpus_file, tmp_file>>
    /\ RewriteFrame

\* batch editor: open(tmp_path, "w")
OpenTmp ==
    /\ tool.name = "batch_save"
    /\ tool.pc = "start"
    /\ tmp_file' = FileOf(<<>>)
    /\ tool' = [tool EXCEPT !.pc = "writing"]
    /\ UNCHANGED corpus_file
    /\ RewriteFrame

\* batch editor: json.dump(data, f), the next piece reaches the .tmp file
WriteTmpPiece ==
    /\ tool.name = "batch_save"
    /\ tool.pc = "writing"
    /\ Len(tmp_file.text) < Len(Dumps(tool.data))
    /\ tmp_file' = FileOf(Append(tmp_file.text,
                                 Dumps(tool.data)[Len(tmp_file.text) + 1]))
    /\ UNCHANGED <<tool, corpus_file>>
    /\ RewriteFrame

\* batch editor: os.replace(tmp_path, path)
Replace ==
    /\ tool.name = "batch_save"
    /\ tool.pc = "writing"
    /\ tmp_file.text = Dumps(tool.data)
    /\ corpus_file' = tmp_file
    /\ tmp_file' = NoFile
    /\ tool' = [tool EXCEPT !.pc = "done"]
    /\ RewriteFrame

\* the process is killed, or json.dump raises, before the rewrite is over;
\* what has reached the files stays
Interrupt ==
    /\ tool.pc \in {"start", "writing"}
    /\ tool' = [tool EXCEPT !.pc = "interrupted"]
    /\ UNCHANGED <<corpus_file, tmp_file>>
    /\ RewriteFrame

NextRewrite ==
    \/ OpenInPlace
    \/ WritePiece
    \/ WriteText
    \/ CloseInPlace
    \/ OpenTmp
    \/ WriteTmpPiece
    \/ Replace
    \/ Interrupt

SpecRewrite == InitRewrite /\ [][NextRewrite]_vars

-----------------------------------------------------------------------------

(* load_system_prompts called more than once in a process on the same file *)

\* the lines of the documents parsed again and again
ReparseLines ==
    {"1. [FanLong]", "2. [ChenFu]", "FanLong-a;", "Option_A{x};p",
     "  Option_A(x): q "}

InitReparse ==
    /\ prompt_file \in {[exists |-> TRUE, lines |-> d] :
                           d \in SeqsUpTo(ReparseLines, MaxDoc)}
    /\ corpus_file = WholeFile(ListData(<<>>))
    /\ tmp_file = NoFile
    /\ loaded = NotLoaded
    /\ tool = NoTool
    /\ returned = <<>>
    /\ items = <<>>
    /\ req_key = ""
    /\ pc = "menu"
    /\ result = NoResult
    /\ items_with_weight = <<>>
    /\ choice = NoChoice
    /\ NoFeedback
    /\ NoParse
    /\ NoGui
    /\ NoMenu
    /\ NoEditor
    /\ NoBatch

ReparseFrame ==
    /\ UNCHANGED <<prompt_file, corpus_file, tmp_file, tool>>
    /\ UNCHANGED <<drawVars, choiceVars, fbVars, guiVars, menuVars, toolVars>>

\* ParseBegin that starts on the locals as the call before left them
ParseBeginKeepState ==
    /\ loaded.prompts \in {"", "ok"}
    /\ Len(returned) < MaxCalls
    /\ prompt_file.exists
    /\ doc_read' = <<>>
    /\ loaded' = [loaded EXCEPT !.prompts = "running"]
    /\ UNCHANGED <<scenes, current_scene, current_subscene, returned>>
    /\ ReparseFrame

\* a call of load_system_prompts begins: its locals are created, the
\* file is found and opened
ParseBegin ==
    /\ loaded.prompts \in {"", "ok"}
    /\ Len(returned) < MaxCalls
    /\ prompt_file.exists
    /\ scenes' = <<>>
    /\ current_scene' = ""
    /\ current_subscene' = ""
    /\ doc_read' = <<>>
    /\ loaded' = [loaded EXCEPT !.prompts = "running"]
    /\ UNCHANGED returned
    /\ ReparseFrame

\* the loop reads the next line of the file
ReadFileLine ==
    /\ loaded.prompts = "running"
    /\ Len(doc_read) < Len(prompt_file.lines)
    /\ LET raw_line == prompt_file.lines[Len(doc_read) + 1]
           st == ParseLine(ParserState(scenes, current_scene, current_subscene),
                           raw_line)
       IN /\ scenes' = st.scenes
          /\ current_scene' = st.current_scene
          /\ current_subscene' = st.current_subscene
          /\ doc_read' = Append(doc_read, raw_line)
    /\ UNCHANGED <<loaded, returned>>
    /\ ReparseFrame

\* the file is at its end: return scenes
ParseReturn ==
    /\ loaded.prompts = "running"
    /\ doc_read = prompt_file.lines
    /\ returned' = Append(returned, scenes)
    /\ loaded' = [loaded EXCEPT !.prompts = "ok"]
    /\ UNCHANGED parseVars
    /\ ReparseFrame

NextReparse == ParseBegin \/ ReadFileLine \/ ParseReturn

SpecReparse == InitReparse /\ [][NextReparse]_vars

-----------------------------------------------------------------------------

(* load_system_prompts on documents that repeat their headers and options: *)
(* the order of the keys of the dicts it builds                             *)

\* the lines of these documents: a scene header, two subscene headers of
\* the scene (b before a), and option lines for two letters (B before A),
\* the last giving letter B another phrase
OrderLines ==
    {"1. [FanLong]", "FanLong-b;", "FanLong-a;",
     "Option_B{x};q", "Option_A{x};p", "Option_B{y};r"}

InitOrder == InitParse

\* the loop reads the next line of the file
ReadOrderLine ==
    /\ Len(doc_read) < MaxOrder
    /\ \E raw_line \in OrderLines :
          LET st == ParseLine(ParserState(scenes, current_scene, current_subscene),
                              raw_line)
          IN /\ scenes' = st.scenes
             /\ current_scene' = st.current_scene
             /\ current_subscene' = st.current_subscene
             /\ doc_read' = Append(doc_read, raw_line)
    /\ UNCHANGED <<drawVars, choiceVars, fbVars, guiVars, menuVars, fileVars, toolVars>>

NextOrder == ReadOrderLine

SpecOrder == InitOrder /\ [][NextOrder]_vars

-----------------------------------------------------------------------------

(* The editor console (EditorApp): one window on tanjing.json               *)

\* a match_weights dict with one weight, and the text str() gives for it
WeightDict == JV("dict", 1, "{'FanLong-a_Option_A': 1}")

Entry(title, safe, mw, index) ==
    [k \in EntryKeys |->
        CASE k = "sutra_title" -> title
          [] k = "blind_safe" -> safe
          [] k = "match_weights" -> mw
          [] OTHER -> index]

\* the entries of the files the editor is started on: one as the data
\* model describes it, stamped with an index, and one with a space before
\* its title, unsafe, without weights and without index
FileEntries ==
    {Entry(JStr("t"), JTrue, WeightDict, JInt(1)),
     Entry(JStr(" u"), JFalse, JAbsent, JAbsent)}

\* what _show_entry puts in a widget for the value val = entry.get(key, ""):
\* a string as it is, "" for None, str(val) otherwise (the values of the
\* form's keys are strings, booleans and dicts here)
FormText(val) ==
    CASE val.t = "str" -> val.s
      [] val.t \in {"absent", "null"} -> ""
      [] val.t = "bool" -> IF val.n = 1 THEN "True" ELSE "False"
      [] OTHER -> val.s

\* the form after _show_entry for entry e
ShowEntry(e) == [k \in FormKeys |-> FormText(e[k])]

\* _read_entry_from_ui: every widget's text, stripped, as a string
ReadEntryFromUi(w) == [k \in FormKeys |-> JStr(Strip(w[k]))]

\* updated = dict(base); updated.update(form): the form's keys replace
\* base's, the other keys of base stay
Update(base, form) ==
    [k \in EntryKeys |-> IF k \in FormKeys THEN form[k] ELSE base[k]]

\* self.data after _sync_current_tab_to_data
SyncCurrentTabToData ==
    IF ed_data = <<>> THEN ed_data
    ELSE IF tab = 0
    THEN [ed_data EXCEPT ![current_index + 1] = Update(@, ReadEntryFromUi(widgets))]
    ELSE IF json_text.kind = "object"
    THEN [ed_data EXCEPT ![current_index + 1] = json_text.obj]
    ELSE ed_data

\* _refresh_json_tab for entry e
RefreshJsonTab(e) == JsonText("object", e)

\* the lists of entries tanjing.json may hold when the editor starts
EditorFiles == SeqsUpTo(FileEntries, MaxItems)

\* EditorApp.__init__: _build_ui, then _load_file on a file holding a list
InitEditor ==
    /\ ed_data \in EditorFiles
    /\ ed_loaded = ed_data
    /\ ed_touched = FALSE
    /\ current_index = 0
    /\ widgets = IF ed_data = <<>> THEN NoWidgets ELSE ShowEntry(ed_data[1])
    /\ tab = 0
    /\ json_text = NoText
    /\ corpus_file = WholeFile(ListData(ed_data))
    /\ prompt_file = [exists |-> TRUE, lines |-> <<>>]
    /\ tmp_file = NoFile
    /\ loaded = NotLoaded
    /\ tool = NoTool
    /\ returned = <<>>
    /\ items = <<>>
    /\ req_key = ""
    /\ pc = "menu"
    /\ result = NoResult
    /\ items_with_weight = <<>>
    /\ choice = NoChoice
    /\ NoFeedback
    /\ NoParse
    /\ NoGui
    /\ NoMenu
    /\ NoBatch

EditorFrame ==
    /\ UNCHANGED <<prompt_file, tmp_file, loaded, tool, returned, ed_loaded>>
    /\ UNCHANGED <<drawVars, choiceVars, fbVars, parseVars, guiVars, menuVars, btVars>>

\* the user types a title into the form
TypeTitle ==
    /\ ed_data # <<>>
    /\ tab = 0
    /\ widgets' = [widgets EXCEPT !["sutra_title"] = "v"]
    /\ ed_touched' = TRUE
    /\ UNCHANGED <<ed_data, current_index, tab, json_text, corpus_file>>
    /\ EditorFrame

\* the user replaces the text of the JSON tab
TypeJson ==
    /\ ed_data # <<>>
    /\ tab = 1
    /\ \E kind \in {"invalid", "array", "object"} :
          json_text' = JsonText(kind, IF kind = "object"
                                      THEN Entry(JStr("v"), JTrue, WeightDict, JAbsent)
                                      ELSE NoEntry)
    /\ ed_touched' = TRUE
    /\ UNCHANGED <<ed_data, current_index, tab, widgets, corpus_file>>
    /\ EditorFrame

\* the user selects the other tab: _on_tab_changed
OnTabChanged ==
    /\ tab' = 1 - tab
    /\ IF ed_data = <<>>
       THEN UNCHANGED <<widgets, json_text>>
       ELSE IF tab' = 0
       THEN /\ widgets' = ShowEntry(ed_data[current_index + 1])
            /\ UNCHANGED json_text
       ELSE /\ json_text' = RefreshJsonTab(ed_data[current_index + 1])
            /\ UNCHANGED widgets
    /\ UNCHANGED <<ed_data, current_index, ed_touched, corpus_file>>
    /\ EditorFrame

\* _apply_json_tab
ApplyJsonTab ==
    /\ ed_data # <<>>
    /\ tab = 1
    /\ IF json_text.kind = "object"
       THEN /\ ed_data' = [ed_data EXCEPT ![current_index + 1] = json_text.obj]
            /\ widgets' = ShowEntry(json_text.obj)
            /\ ed_touched' = TRUE
       ELSE UNCHANGED <<ed_data, widgets, ed_touched>>
    /\ UNCHANGED <<current_index, tab, json_text, corpus_file>>
    /\ EditorFrame

\* _save: the current tab is synced into self.data and the list is written
Save ==
    /\ ed_data # <<>>
    /\ ed_data' = SyncCurrentTabToData
    /\ corpus_file' = WholeFile(ListData(ed_data'))
    /\ UNCHANGED <<current_index, widgets, tab, json_text, ed_touched>>
    /\ EditorFrame

\* the entry at (0-based) index i is shown: _refresh_index, _show_entry,
\* _refresh_json_tab
ShownAt(i) ==
    /\ current_index' = i
    /\ widgets' = ShowEntry(ed_data'[i + 1])
    /\ json_text' = RefreshJsonTab(ed_data'[i + 1])

\* _prev: _save, then one entry back unless at the first
Prev ==
    /\ ed_data # <<>>
    /\ ed_data' = SyncCurrentTabToData
    /\ corpus_file' = WholeFile(ListData(ed_data'))
    /\ IF current_index > 0
       THEN ShownAt(current_index - 1)
       ELSE UNCHANGED <<current_index, widgets, json_text>>
    /\ UNCHANGED <<tab, ed_touched>>
    /\ EditorFrame

\* _next: _save, then one entry on unless at the last
NextEntry ==
    /\ ed_data # <<>>
    /\ ed_data' = SyncCurrentTabToData
    /\ corpus_file' = WholeFile(ListData(ed_data'))
    /\ IF current_index < Len(ed_data) - 1
       THEN ShownAt(current_index + 1)
       ELSE UNCHANGED <<current_index, widgets, json_text>>
    /\ UNCHANGED <<tab, ed_touched>>
    /\ EditorFrame

\* Goto saving the current entry before it looks at the number
GotoSavesFirst(num) ==
    /\ ed_data # <<>>
    /\ ed_data' = SyncCurrentTabToData
    /\ corpus_file' = WholeFile(ListData(ed_data'))
    /\ IF ~(1 <= num /\ num <= Len(ed_data))
       THEN UNCHANGED <<current_index, widgets, json_text>>
       ELSE ShownAt(num - 1)
    /\ UNCHANGED <<tab, ed_touched>>
    /\ EditorFrame

\* _goto_index with the number num typed: out of range is refused before
\* anything is saved
Goto(num) ==
    /\ ed_data # <<>>
    /\ IF ~(1 <= num /\ num <= Len(ed_data))
       THEN UNCHANGED <<ed_data, corpus_file, current_index, widgets, json_text>>
       ELSE /\ ed_data' = SyncCurrentTabToData
            /\ corpus_file' = WholeFile(ListData(ed_data'))
            /\ ShownAt(num - 1)
    /\ UNCHANGED <<tab, ed_touched>>
    /\ EditorFrame

\* the numbers typed into the go-to box: every position of the list, the
\* number below them and the number above them
GotoNumbers == 0..(Len(ed_data) + 1)

\* the go-to button (or Return in its box), whatever number was typed
GotoIndex == \E num \in GotoNumbers : Goto(num)

\* item.get("sutra_title", "")
FoundTitle(e) == IF e["sutra_title"].t = "str" THEN e["sutra_title"].s ELSE ""

\* the first (0-based) index whose sutra_title is the string title, -1 if none
FoundIndex(d, title) ==
    LET S == {i \in 1..Len(d) : FoundTitle(d[i]) = title}
    IN IF S = {} THEN -1 ELSE MinOf(S) - 1

\* _search_by_sutra_title with a title typed: _save, then the first entry
\* of that title is shown
SearchBySutraTitle ==
    /\ ed_data # <<>>
    /\ \E title \in {"t", "u", "x"} :
          /\ ed_data' = SyncCurrentTabToData
          /\ corpus_file' = WholeFile(ListData(ed_data'))
          /\ IF FoundIndex(ed_data', title) = -1
             THEN UNCHANGED <<current_index, widgets, json_text>>
             ELSE ShownAt(FoundIndex(ed_data', title))
    /\ UNCHANGED <<tab, ed_touched>>
    /\ EditorFrame

\* _delete_current_entry, confirmed or not: the current tab is synced,
\* the current entry removed and the list written
DeleteCurrentEntry ==
    /\ ed_data # <<>>
    /\ \E ok \in BOOLEAN :
          IF ~ok
          THEN UNCHANGED <<ed_data, corpus_file, current_index, widgets,
                           json_text, ed_touched>>
          ELSE /\ ed_data' = Del(SyncCurrentTabToData, current_index + 1)
               /\ corpus_file' = WholeFile(ListData(ed_data'))
               /\ ed_touched' = TRUE
               /\ IF ed_data' = <<>>
                  THEN /\ current_index' = 0
                       /\ widgets' = NoWidgets
                       /\ json_text' = NoText
                  ELSE ShownAt(IF current_index >= Len(ed_data')
                               THEN Len(ed_data') - 1 ELSE current_index)
    /\ UNCHANGED tab
    /\ EditorFrame

NextEditor ==
    \/ TypeTitle
    \/ TypeJson
    \/ OnTabChanged
    \/ ApplyJsonTab
    \/ Save
    \/ Prev
    \/ NextEntry
    \/ GotoIndex
    \/ SearchBySutraTitle
    \/ DeleteCurrentEntry

SpecEditor == InitEditor /\ [][NextEditor]_vars

-----------------------------------------------------------------------------

(* The batch editor: main() and edit_batch on tanjing.json                  *)

\* what the user answers at "replace this entry?": n (keep), or y followed
\* by a paste that is empty, not JSON, JSON that is not an object, or an
\* object
Answers == {"n", "empty", "invalid", "array", "object"}

\* start_idx = max(start_index_1_based - 1, 0)
StartIdx == IF current_start - 1 > 0 THEN current_start - 1 ELSE 0

\* end_idx = min(start_idx + batch_size, n)
EndIdx ==
    IF StartIdx + batch_size < Len(bt_data) THEN StartIdx + batch_size
    ELSE Len(bt_data)

\* main() after data = load_json(json_path), for every --start from 0 to
\* one past the end and every --batch-size from 1 to the length bound
InitBatch ==
    /\ bt_data \in SeqsUpTo(CorpusRecords, MaxItems)
    /\ corpus_file = WholeFile(ListData(bt_data))
    /\ current_start \in 0..(MaxItems + 1)
    /\ batch_size \in 1..MaxItems
    /\ bt_pc = "main"
    /\ bt_i = 0
    /\ bt_base = bt_data
    /\ bt_raw = "n"
    /\ bt_shown = <<>>
    /\ bt_saves = 0
    /\ prompt_file = [exists |-> TRUE, lines |-> <<>>]
    /\ tmp_file = NoFile
    /\ loaded = NotLoaded
    /\ tool = NoTool
    /\ returned = <<>>
    /\ items = <<>>
    /\ req_key = ""
    /\ pc = "menu"
    /\ result = NoResult
    /\ items_with_weight = <<>>
    /\ choice = NoChoice
    /\ NoFeedback
    /\ NoParse
    /\ NoGui
    /\ NoMenu
    /\ NoEditor

BatchFrame ==
    /\ UNCHANGED <<prompt_file, tmp_file, loaded, tool, returned, batch_size>>
    /\ UNCHANGED <<drawVars, choiceVars, fbVars, parseVars, guiVars, menuVars, edVars>>

\* main() calls edit_batch: a start beyond the list returns False at once
\* and main() stops without saving; otherwise the batch's loop begins
BatchBegin ==
    /\ bt_pc = "main"
    /\ IF StartIdx >= Len(bt_data)
       THEN /\ bt_pc' = "beyond"
            /\ UNCHANGED bt_i
       ELSE /\ bt_pc' = "entry"
            /\ bt_i' = StartIdx
    /\ bt_base' = bt_data
    /\ UNCHANGED <<bt_data, current_start, bt_raw, bt_shown, bt_saves, corpus_file>>
    /\ BatchFrame

\* one round of edit_batch's loop: entry i is shown and kept, or replaced
\* by the pasted object
BatchEntry ==
    /\ bt_pc = "entry"
    /\ \E answer \in Answers :
          /\ bt_raw' = answer
          /\ IF answer = "object"
             THEN \E obj \in CorpusRecords :
                     bt_data' = [bt_data EXCEPT ![bt_i + 1] = obj]
             ELSE UNCHANGED bt_data
    /\ bt_i' = bt_i + 1
    /\ bt_shown' = Append(bt_shown, bt_i)
    /\ bt_pc' = IF bt_i + 1 < EndIdx THEN "entry" ELSE "confirm"
    /\ UNCHANGED <<current_start, bt_base, bt_saves, corpus_file>>
    /\ BatchFrame

\* BatchConfirm saving the list whatever the answer
BatchConfirmAlwaysSaves ==
    /\ bt_pc = "confirm"
    /\ corpus_file' = WholeFile(ListData(bt_data))
    /\ bt_saves' = bt_saves + 1
    /\ \E cont \in {"y", "n"} :
          IF cont = "y"
          THEN /\ current_start' = current_start + batch_size
               /\ bt_pc' = IF current_start' > Len(bt_data) THEN "finished" ELSE "main"
          ELSE /\ bt_pc' = "declined"
               /\ UNCHANGED current_start
    /\ UNCHANGED <<bt_data, bt_i, bt_base, bt_raw, bt_shown>>
    /\ BatchFrame

\* Confirm with main() stopping as soon as current_start reaches the
\* length of the list
ConfirmStopsAtLength(cont) ==
    /\ bt_pc = "confirm"
    /\ IF cont = "y"
       THEN /\ corpus_file' = WholeFile(ListData(bt_data))
            /\ bt_saves' = bt_saves + 1
            /\ current_start' = current_start + batch_size
            /\ bt_pc' = IF current_start' >= Len(bt_data) THEN "finished" ELSE "main"
       ELSE /\ bt_pc' = "declined"
            /\ UNCHANGED <<corpus_file, current_start, bt_saves>>
    /\ UNCHANGED <<bt_data, bt_i, bt_base, bt_raw, bt_shown>>
    /\ BatchFrame

\* the end of the batch with the answer cont: on y main() saves the list
\* (save_json) and moves current_start on, stopping when it is past the
\* end; on n or an empty answer main() stops without saving
Confirm(cont) ==
    /\ bt_pc = "confirm"
    /\ IF cont = "y"
       THEN /\ corpus_file' = WholeFile(ListData(bt_data))
            /\ bt_saves' = bt_saves + 1
            /\ current_start' = current_start + batch_size
            /\ bt_pc' = IF current_start' > Len(bt_data) THEN "finished" ELSE "main"
       ELSE /\ bt_pc' = "declined"
            /\ UNCHANGED <<corpus_file, current_start, bt_saves>>
    /\ UNCHANGED <<bt_data, bt_i, bt_base, bt_raw, bt_shown>>
    /\ BatchFrame

\* the end of the batch, whatever the user answers
BatchConfirm == \E cont \in {"y", "n"} : Confirm(cont)

NextBatch == BatchBegin \/ BatchEntry \/ BatchConfirm

SpecBatch == InitBatch /\ [][NextBatch]_vars

\* main() started with --start >= 1 by a user who confirms every batch
InitBatchYes == InitBatch /\ current_start >= 1

BatchConfirmYes == Confirm("y")

NextBatchYes == BatchBegin \/ BatchEntry \/ BatchConfirmYes

\* the user answers every prompt, so a step that can be taken is taken
SpecBatchYes == InitBatchYes /\ [][NextBatchYes]_vars /\ WF_vars(NextBatchYes)

-----------------------------------------------------------------------------

(* Properties of the draw (SpecDraw, SpecChoice) *)

\* result is what blind_draw_once(items, req_key) did
Drawn == pc \in {"shown", "crashed", "exit"}
Returned == Drawn /\ result.outcome \in {"item", "None"}

Refs(c) == [i \in 1..Len(c) |-> c[i].ref]
RefSet(c) == {c[i].ref : i \in 1..Len(c)}
AllObjects(its) == \A i \in 1..Len(its) : its[i].t = "object"

\* the weight a record holds for the key, as a number, is greater than 0
PositiveWeight(item, key) ==
    /\ item.mw.t = "dict"
    /\ ToFloat(item.w[key]).err = ""
    /\ FGt(ToFloat(item.w[key]).f, F(0))

\* the positions of the records with blind_safe = true and a weight > 0
RECURSIVE SafePositive(_, _, _)
SafePositive(its, key, i) ==
    IF i = 0 THEN <<>>
    ELSE IF its[i].t = "object" /\ its[i].blind_safe = JTrue
            /\ PositiveWeight(its[i], key)
         THEN Append(SafePositive(its, key, i - 1), i)
         ELSE SafePositive(its, key, i - 1)

\* C1: the candidate set built by blind_draw_once is exactly the records
\* whose blind_safe is the boolean true and whose weight for the key is
\* greater than 0, in corpus order.
C1_CandidatesExactlySafePositive ==
    Returned => Refs(result.candidates) = SafePositive(items, req_key, Len(items))

\* C2: a record returned by blind_draw_once is one of the candidates the
\* filter kept, is a record of the input list, is not unsafe (flag false
\* or missing) and has no weight <= 0 for the key, whatever r in
\* [0, total] was drawn, the fallback branch included.
C2_DrawnIsCandidate ==
    (Drawn /\ result.outcome = "item") =>
        /\ result.ref \in RefSet(result.candidates)
        /\ result.ref \in 1..Len(items)
        /\ items[result.ref].blind_safe \notin {JAbsent, JFalse}
        /\ ToFloat(items[result.ref].w[req_key]).err = ""
        /\ ~FLe(ToFloat(items[result.ref].w[req_key]).f, F(0))

\* the fallback branch returned the last of two candidates
C2_Witness ==
    /\ Drawn
    /\ result.outcome = "item"
    /\ result.fallback
    /\ Len(result.candidates) = 2
    /\ Len(items) = 2

\* a record that is no candidate by one of the cases C4 lists: unsafe
\* (flag false or missing), key absent from its weight map, or weight 0
NotEligible(item, key) ==
    /\ item.t = "object"
    /\ \/ item.blind_safe \in {JAbsent, JFalse}
       \/ item.mw.t = "absent"
       \/ item.mw.t = "dict" /\ item.w[key] \in {JAbsent, JInt(0)}

\* C4: when no record is a candidate for the key (empty corpus, key
\* absent from every weight map, matching records unsafe or of weight 0),
\* blind_draw_once returns None: no error and no weighted selection.
C4_NoCandidateReturnsNone ==
    (Drawn /\ \A i \in 1..Len(items) : NotEligible(items[i], req_key)) =>
        /\ result.outcome = "None"
        /\ ~result.wrc

\* an unsafe record with a weight for the key, then a safe record
\* without the key
C4_Witness ==
    /\ Drawn
    /\ Len(items) = 2
    /\ items[1].blind_safe = JFalse
    /\ items[1].w[req_key] = JInt(MaxWeight)
    /\ items[2].blind_safe = JTrue
    /\ items[2].mw.t = "dict"
    /\ items[2].w[req_key] = JAbsent
    /\ result.outcome = "None"

\* a record whose weight for the key cannot be made a number (a
\* non-numeric string, null, a list, an object), or whose match_weights
\* is not a mapping
BadWeight(item, key) ==
    /\ item.t = "object"
    /\ \/ item.mw.t # "dict"
       \/ item.w[key] \in {JStr("abc"), JNull, JList(1), JDict(1)}

RemoveAt(sq, i) == [j \in 1..(Len(sq) - 1) |-> IF j < i THEN sq[j] ELSE sq[j + 1]]

\* C5: a record with such a weight is left out of the candidates without
\* an error, and the other records are candidates exactly when they are
\* candidates of the list without it.
C5_BadWeightExcluded ==
    Drawn =>
        \A i \in 1..Len(items) :
            BadWeight(items[i], req_key) =>
                /\ AllObjects(items) =>
                      Returned /\ i \notin RefSet(result.candidates)
                /\ \A j \in 1..Len(items) \ {i} :
                      (ItemOutcome(items[j], req_key) = "append") <=>
                      ((IF j < i THEN j ELSE j - 1) \in
                         RefSet(Candidates(RemoveAt(items, i), req_key,
                                           Len(items) - 1)))

\* a safe record with weight "abc" is passed over and the next one drawn
C5_Witness ==
    /\ Drawn
    /\ Len(items) = 2
    /\ items[1].blind_safe = JTrue
    /\ items[1].mw.t = "dict"
    /\ items[1].w[req_key] = JStr("abc")
    /\ result.outcome = "item"
    /\ result.ref = 2

\* C6: whatever the elements of the array are, blind_draw_once completes
\* with one record or None and raises nothing.
C6_DrawNeverRaises == Drawn => result.outcome \in {"item", "None"}

\* C7: in every call blind_draw_once makes of weighted_random_choice the
\* sum of the weights is > 0 (so the ValueError is never raised).
C7_DrawSumPositive ==
    (Drawn /\ result.wrc) =>
        /\ FGt(SumWeights(result.candidates), F(0))
        /\ result.outcome # "ValueError"

\* w1 + .. + wi of a list of integer weights
RECURSIVE PrefixSum(_, _)
PrefixSum(iw, i) == IF i = 0 THEN 0 ELSE PrefixSum(iw, i - 1) + iw[i].w.v

PositiveIntWeights(iw) == \A i \in 1..Len(iw) : ~iw[i].w.nan /\ iw[i].w.v > 0

\* C3: for a non-empty list with positive integer weights and an integer
\* r in [0, total), weighted_random_choice returns the one entry i with
\* w1+..+w(i-1) <= r < w1+..+wi, so exactly wi of the total values of r
\* select entry i.
C3_PrefixSumSelection ==
    LET iw == items_with_weight
        total == PrefixSum(iw, Len(iw))
    IN (iw # <<>> /\ PositiveIntWeights(iw)) =>
          /\ (choice.outcome # "" /\ choice.r.v < total) =>
                /\ choice.outcome = "item"
                /\ choice.pos \in 1..Len(iw)
                /\ choice.ref = iw[choice.pos].ref
                /\ PrefixSum(iw, choice.pos - 1) <= choice.r.v
                /\ choice.r.v < PrefixSum(iw, choice.pos)
          /\ \A i \in 1..Len(iw) :
                Cardinality({k \in 0..(total - 1) :
                    WeightedRandomChoice(iw, F(k)).pos = i}) = iw[i].w.v

\* three weighted entries, the middle one selected
C3_Witness ==
    /\ Len(items_with_weight) = 3
    /\ PositiveIntWeights(items_with_weight)
    /\ items_with_weight[1].w.v # items_with_weight[2].w.v
    /\ choice.outcome = "item"
    /\ choice.pos = 2
    /\ ~choice.fallback

-----------------------------------------------------------------------------
(* Properties of the feedback log (SpecFeedback) *)

\* a line that stores a number as its feedback_id
NumericId(line) == line.kind = "object" /\ line.fid.t \in {"int", "float"}

\* the stored id is less than n (JHalf(k) is k + 0.5)
IdBelow(fid, n) == IF fid.t = "float" THEN fid.n + 1 <= n ELSE fid.n < n

NonBlank(lg) == Cardinality({i \in 1..Len(lg) : lg[i].kind # "blank"})

\* writer w holds the value get_next_feedback_id returned for the log
Scanned(w) == fb_pc[w] = "write"

\* C8 as stated: the value returned is greater than every feedback_id
\* stored in the log and greater than the number of lines of the log.
C8_NextIdAboveIdsAndLines ==
    \A w \in Writers :
        Scanned(w) =>
            /\ \A i \in 1..Len(log) :
                  NumericId(log[i]) => IdBelow(log[i].fid, fb_id[w])
            /\ fb_id[w] > Len(log)

\* C8 as amended: the value returned is greater than every feedback_id
\* stored in the log and greater than the number of non-blank lines.
C8_NextIdAboveIdsAndNonBlank ==
    \A w \in Writers :
        Scanned(w) =>
            /\ \A i \in 1..Len(log) :
                  NumericId(log[i]) => IdBelow(log[i].fid, fb_id[w])
            /\ fb_id[w] > NonBlank(log)

\* an id was computed for a full log with a blank line, an unreadable
\* line and the largest stored id
C8_Witness ==
    /\ Scanned("w1")
    /\ Len(log) = MaxLog
    /\ \E i \in 1..Len(log) : log[i].kind = "blank"
    /\ \E i \in 1..Len(log) : log[i].kind = "invalid"
    /\ \E i \in 1..Len(log) : log[i].fid = JInt(MaxId)

\* a log in the format on_save_feedback writes: every line a JSON object
\* with an integer feedback_id, every line ended by its newline
WellFormedLog(l0) ==
    /\ ~l0.open
    /\ \A i \in 1..Len(l0.lines) :
          l0.lines[i].kind = "object" /\ l0.lines[i].fid.t = "int"

\* C9: with one writer and only successful submissions, a log that was
\* missing or empty holds the ids 1, 2, 3, .. in line order; on a
\* well-formed log every appended id is greater than all ids before it.
C9_IdsDistinctIncreasing ==
    ~write_failed =>
        /\ log0.lines = <<>> =>
              /\ Len(log) = Len(written)
              /\ \A k \in 1..Len(log) :
                    log[k].kind = "object" /\ log[k].fid = JInt(k)
        /\ WellFormedLog(log0) =>
              /\ Len(log) = Len(log0.lines) + Len(written)
              /\ \A k \in (Len(log0.lines) + 1)..Len(log) :
                    /\ log[k].kind = "object"
                    /\ log[k].fid = JInt(written[k - Len(log0.lines)])
                    /\ \A j \in 1..(k - 1) : log[j].fid.n < log[k].fid.n

\* two records appended to a log whose ids were not in order
C9_Witness ==
    /\ WellFormedLog(log0)
    /\ Len(log0.lines) = 2
    /\ log0.lines[1].fid.n > log0.lines[2].fid.n
    /\ Len(written) = 2
    /\ ~write_failed

\* C10: get_next_feedback_id never fails because of the log's content.
C10_ScanNeverFails == \A w \in Writers : fb_err[w] = ""

-----------------------------------------------------------------------------
(* Properties of two unsynchronised writers (SpecRace) *)

\* both windows read the same file, then both appended a record to it:
\* each has reported success, and the file is two lines longer than the
\* one both calls of get_next_feedback_id read
BothReadThenBothAppended ==
    /\ \A w \in Writers : fb_pc[w] = "idle" /\ fb_msg[w] = "success"
    /\ fb_seen["w1"] = fb_seen["w2"]
    /\ Len(log) = Len(fb_seen["w1"].lines) + 2
    /\ ~write_failed
    /\ ~log0.open

\* C11: when two writers both read the log before either appends, and both
\* then append, the two records appended carry the same feedback_id
\* (the log ends with two records, one of each writer, with equal ids).
C11_BothReadThenDuplicateId ==
    BothReadThenBothAppended =>
        LET n == Len(log)
        IN /\ log[n - 1].kind = "object" /\ log[n].kind = "object"
           /\ log[n - 1].fid.t = "int"
           /\ log[n - 1].fid = log[n].fid
           /\ log[n - 1].req_key # log[n].req_key
           /\ SubSeq(log, 1, n - 2) = fb_seen["w1"].lines

\* both writers read the same log holding a record with id 1, both
\* appended, and the log now holds id 2 twice
C11_Witness ==
    /\ BothReadThenBothAppended
    /\ Len(log) = 3
    /\ log[1].fid = JInt(1)
    /\ log[2].fid = JInt(2)
    /\ log[3].fid = JInt(2)

-----------------------------------------------------------------------------
(* Properties of the write in on_save_feedback (SpecFeedback) *)

\* the record the window w is about to append
PendingRecord(w) ==
    LogLine("object", JInt(fb_id[w]), last_result_item[w], var_req_key[w])

\* this step leaves the file with the record of w and its newline appended
RecordAndNewlineWritten(w) ==
    /\ log' = AppendText(log, tail_open, PendingRecord(w))
    /\ tail_open' = FALSE
    /\ log_exists' = TRUE

\* C13: a step of on_save_feedback's write reports success only when it
\* left the record and its terminating newline in the file; otherwise
\* (mkdir, open or a write failed) it shows the error box, does not report
\* success and leaves the comment box as it was.
C13_FailureSurfacedSuccessAfterWrite ==
    [][\A w \in Writers :
          (fb_pc[w] = "write" /\ fb_pc'[w] = "idle") =>
              IF fb_msg'[w] = "success"
              THEN RecordAndNewlineWritten(w)
              ELSE /\ fb_msg'[w] = "error"
                   /\ comment'[w] = comment[w]
                   /\ written' = written]_vars

\* a write failed after part of the text reached the file: the error box
\* was shown and the comment is still in its box
C13_Witness ==
    /\ fb_pc["w1"] = "idle"
    /\ fb_msg["w1"] = "error"
    /\ write_failed
    /\ tail_open
    /\ ~log0.open
    /\ comment["w1"]

-----------------------------------------------------------------------------
(* Properties of the taxonomy parser (SpecParse) *)

\* the line read by this step
LineRead == doc_read'[Len(doc_read')]
ReadsLine == Len(doc_read') = Len(doc_read) + 1

\* the subscenes of scene s and the options of its subscene u in the
\* taxonomy sc (empty where s or u is not registered)
SubscenesOf(sc, s) == IF Has(sc, s) THEN Get(sc, s) ELSE <<>>
OptionsOf(sc, s, u) ==
    IF Has(SubscenesOf(sc, s), u) THEN Get(SubscenesOf(sc, s), u) ELSE <<>>

SceneNames(sc) == {sc[i].k : i \in 1..Len(sc)}
SubsceneNames(sc, s) == SceneNames(SubscenesOf(sc, s))
Letters(sc, s, u) == SceneNames(OptionsOf(sc, s, u))

\* every subscene carries its scene's prefix; every option entry has a
\* letter of A, B, C and a non-empty phrase
TaxonomyShape(sc) ==
    \A s \in SceneNames(sc) : \A u \in SubsceneNames(sc, s) :
        /\ StartsWith(u, s \o "-")
        /\ \A l \in Letters(sc, s, u) :
              /\ l \in {"A", "B", "C"}
              /\ Get(OptionsOf(sc, s, u), l) # ""

\* a subscene appears under s only in a step that found s open; an option
\* entry appears or changes only under the subscene that was open
RegisteredWhileOpen ==
    \A s \in SceneNames(scenes') : \A u \in SubsceneNames(scenes', s) :
        /\ u \notin SubsceneNames(scenes, s) =>
              current_scene = s /\ current_scene' = s
        /\ OptionsOf(scenes', s, u) # OptionsOf(scenes, s, u) =>
              current_scene = s /\ current_subscene = u

\* C17: after any sequence of lines every subscene registered under a
\* scene S begins with "S-" and was registered while S was the open scene,
\* and every option entry has a letter of A, B, C, a non-empty phrase and
\* was put under the subscene open when its line was read.
C17_RegisteredUnderOpenScene ==
    [](TaxonomyShape(scenes)) /\ [][RegisteredWhileOpen]_vars

\* a subscene header of another scene was read while FanLong was open and
\* was refused; FanLong-a and its option A were registered
C17_Witness ==
    /\ doc_read = <<"1. [FanLong]", "ChenFu-b;", "FanLong-a;", "Option_A{x};p">>
    /\ scenes = <<[k |-> "FanLong",
                   v |-> <<[k |-> "FanLong-a",
                            v |-> <<[k |-> "A", v |-> "p"]>>]>>]>>

\* the line has the option shape
OptionShaped(raw_line) == OptionMatch(Strip(raw_line)).ok

\* the taxonomy sc with letter = phrase put under scene s, subscene u
WithOption(sc, s, u, letter, phrase) ==
    Put(sc, s, Put(Get(sc, s), u, Put(Get(Get(sc, s), u), letter, phrase)))

\* C18: an option-shaped line read while a scene and a subscene are open is
\* recorded under the open subscene at its letter with its phrase
\* (replacing an earlier phrase of that letter); an option-shaped line read
\* while no scene or no subscene is open changes nothing.
C18_OptionLineRecorded ==
    [][(ReadsLine /\ OptionShaped(LineRead)) =>
          IF current_scene # "" /\ current_subscene # ""
          THEN scenes' = WithOption(scenes, current_scene, current_subscene,
                                    OptionMatch(Strip(LineRead)).g1,
                                    Strip(OptionMatch(Strip(LineRead)).g2))
          ELSE scenes' = scenes]_vars

\* the line is blank or matches none of the three patterns
Unrecognized(raw_line) ==
    LET line == Strip(raw_line)
    IN \/ line = ""
       \/ /\ ~BigSceneMatch(line).ok
          /\ ~SubsceneMatch(line).ok
          /\ ~OptionMatch(line).ok

\* the document without its unrecognized lines
RECURSIVE Recognized(_)
Recognized(doc) ==
    IF doc = <<>> THEN <<>>
    ELSE IF Unrecognized(Head(doc)) THEN Recognized(Tail(doc))
         ELSE <<Head(doc)>> \o Recognized(Tail(doc))

\* C19: a blank line or a line of no recognized shape leaves the taxonomy,
\* the current scene and the current subscene as they were, and the
\* taxonomy parsed from the lines read equals the taxonomy parsed from
\* those lines with the unrecognized ones removed.
C19_UnrecognizedLinesIgnored ==
    /\ [][(ReadsLine /\ Unrecognized(LineRead)) =>
             UNCHANGED <<scenes, current_scene, current_subscene>>]_vars
    /\ [](scenes = LoadSystemPrompts(Recognized(doc_read)))

\* a blank line and a line of no recognized shape were read between the
\* subscene header and its option line
C19_Witness ==
    /\ doc_read = <<"1. [FanLong]", "FanLong-a;", "Option_D{x};p", "Option_A{x};p">>
    /\ Recognized(doc_read) = <<"1. [FanLong]", "FanLong-a;", "Option_A{x};p">>
    /\ scenes = <<[k |-> "FanLong",
                   v |-> <<[k |-> "FanLong-a",
                            v |-> <<[k |-> "A", v |-> "p"]>>]>>]>>

-----------------------------------------------------------------------------
(* Properties of the selection (SpecSelect) *)

\* the window's key is built from identifier u and the selected letter
KeyIs(u) == var_req_key[Win] = u \o "_Option_" \o var_option

\* C14: in the GUI the routing key is non-empty exactly when a scene, a
\* subscene and an option letter are all selected, and it is then the
\* selected subscene's taxonomy identifier, "_Option_" and the letter; a
\* step taken while the key is empty (a click on draw among them) makes no
\* call of blind_draw_once and leaves the last drawn result as it was.
C14_KeyIffAllSelected ==
    /\ [](pc = "mainloop" =>
            /\ var_req_key[Win] # "" <=>
                   (var_scene # "" /\ var_subscene # "" /\ var_option # "")
            /\ var_req_key[Win] # "" =>
                   \E u \in SubsceneNames(scenes, var_scene) :
                       DisplayName(u) = var_subscene /\ KeyIs(u))
    /\ [][(pc = "mainloop"
           /\ ReqKeyOf(var_scene, var_subscene, var_option,
                       subscene_display_to_internal) = "") =>
             UNCHANGED <<req_key, result, last_result_item>>]_vars

\* draw was clicked with nothing selected and warned; then FanLong, its
\* subscene a and the letter A were selected
C14_Witness ==
    /\ pc = "mainloop"
    /\ fb_msg[Win] = "warn_no_key"
    /\ result = NoResult
    /\ var_scene = "FanLong"
    /\ var_subscene = "a"
    /\ var_option = "A"
    /\ var_req_key[Win] = "FanLong-a_Option_A"

\* the sequence holds exactly the canonical scenes that were parsed, in
\* canonical order
CanonicalParsed(seq, sc) ==
    /\ {seq[i] : i \in 1..Len(seq)} =
          {CanonicalScenes[i] : i \in 1..Len(CanonicalScenes)} \cap SceneNames(sc)
    /\ \A i, j \in 1..Len(seq) :
          i < j => \E a, b \in 1..Len(CanonicalScenes) :
                      a < b /\ CanonicalScenes[a] = seq[i] /\ CanonicalScenes[b] = seq[j]

\* the routing keys of the subscenes of the scenes in the set S
KeysUnder(sc, S) ==
    {u \o "_Option_" \o OptionLetters[l] :
        u \in UNION {SubsceneNames(sc, s) : s \in S}, l \in 1..Len(OptionLetters)}

\* C20: the scenes offered by the simulator's menu and by the GUI's radio
\* buttons are exactly the parsed scenes of the canonical list, in the
\* canonical order whatever their order in the document; the scene
\* selected and the routing key built always belong to one of them.
C20_CanonicalScenesOnly ==
    LET offered == {CanonicalScenes[i] : i \in 1..Len(CanonicalScenes)}
                       \cap SceneNames(scenes)
        others == SceneNames(scenes) \ offered
    IN /\ CanonicalParsed(AvailableScenes(scenes), scenes)
       /\ pc = "mainloop" =>
             /\ scene_order = AvailableScenes(scenes)
             /\ var_scene \in offered \cup {""}
             /\ var_req_key[Win] # "" =>
                   /\ var_req_key[Win] \in KeysUnder(scenes, {var_scene})
                   /\ var_req_key[Win] \notin KeysUnder(scenes, others)
       /\ pc \in {"keyed", "shown"} =>
             /\ scene_name \in offered
             /\ subscene_name \in SubsceneNames(scenes, scene_name)
             /\ req_key \in KeysUnder(scenes, {scene_name})
             /\ req_key \notin KeysUnder(scenes, others)

\* the document names ZaXiang (with a subscene), then ChenFu, then
\* FanLong; the buttons are FanLong, ChenFu, and ChenFu was clicked
C20_Witness ==
    /\ pc = "mainloop"
    /\ Keys(scenes) = <<"ZaXiang", "ChenFu", "FanLong">>
    /\ SubsceneNames(scenes, "ZaXiang") = {"ZaXiang-c"}
    /\ scene_order = <<"FanLong", "ChenFu">>
    /\ var_scene = "ChenFu"

-----------------------------------------------------------------------------
(* Properties of the GUI run (SpecGui) *)

\* C12: the feedback log is append-only.  Every step of the window
\* (selection, draw, id computation, submission) leaves the lines that
\* were in the log in place, unchanged and in order, and a successful
\* submission adds exactly one line, its record, at the end.
C12_LogAppendOnly ==
    [][/\ Len(log') >= Len(log)
       /\ SubSeq(log', 1, Len(log)) = log
       /\ written' # written => log' = Append(log, PendingRecord(Win))]_vars

-----------------------------------------------------------------------------
(* Properties of the readers on missing files (SpecLoad) *)

\* the three files are all missing and the three readers have been called
AllMissingAllCalled ==
    /\ ~prompt_file.exists /\ ~corpus_file.exists /\ ~log_exists
    /\ loaded.prompts # "" /\ loaded.items # "" /\ loaded.log # ""

\* C15 as stated: loading the taxonomy document, loading the corpus file
\* and reading the feedback log each fail with a missing-source error when
\* the file does not exist
C15_AllThreeFailWhenMissing ==
    /\ (loaded.prompts # "" /\ ~prompt_file.exists)
           => loaded.prompts = "FileNotFoundError"
    /\ (loaded.items # "" /\ ~corpus_file.exists)
           => loaded.items = "FileNotFoundError"
    /\ (loaded.log # "" /\ ~log_exists)
           => loaded.log = "FileNotFoundError"

\* C15: loading the taxonomy document and loading the corpus file each
\* fail with a missing-source error when the file does not exist (and only
\* then), and neither yields a value; reading the feedback log when the
\* file does not exist is not an error: it yields 1, the id of the first
\* record of a log that is yet to be created
C15_TaxonomyAndCorpusFailMissingLogStartsAtOne ==
    /\ loaded.prompts # ""
           => /\ loaded.prompts = "FileNotFoundError" <=> ~prompt_file.exists
              /\ ~prompt_file.exists => scenes = <<>>
    /\ loaded.items # ""
           => /\ loaded.items = "FileNotFoundError" <=> ~corpus_file.exists
              /\ ~corpus_file.exists => items = <<>>
    /\ (loaded.log # "" /\ ~log_exists)
           => loaded.log = "ok" /\ loaded.next_id = 1

C15_Witness ==
    /\ AllMissingAllCalled
    /\ loaded.prompts = "FileNotFoundError"
    /\ loaded.items = "FileNotFoundError"
    /\ loaded.log = "ok"
    /\ loaded.next_id = 1

-----------------------------------------------------------------------------
(* Properties of the corpus rewrite (SpecRewrite) *)

\* tanjing.json holds the whole of the content it had or the whole of the
\* content being written
OldOrNew ==
    corpus_file \in {WholeFile(tool.old), WholeFile(tool.data)}

\* C16: whichever tool rewrites the corpus file, and wherever the rewrite
\* is interrupted, the corpus file holds either the complete old content or
\* the complete new content, never a truncated or partial one
C16_CorpusCompleteOldOrNew == OldOrNew

\* the batch editor alone: its rewrite goes through tanjing.json.tmp and
\* os.replace
BatchSaveOldOrNew == tool.name = "batch_save" => OldOrNew

-----------------------------------------------------------------------------
(* Properties of repeated parses (SpecReparse) *)

\* C21: parsing is a function of the document's line sequence: every call
\* of load_system_prompts on the same document returns the same taxonomy
\* (same scenes, subscenes, letters and phrases, in the same order), the
\* one the line sequence determines, whatever an earlier call left behind
C21_ReparseYieldsSameTaxonomy ==
    \A i \in 1..Len(returned) :
       /\ returned[i] = LoadSystemPrompts(prompt_file.lines)
       /\ \A j \in 1..Len(returned) : returned[j] = returned[i]

\* a document whose option line comes before its headers has been parsed
\* twice: the first call ended with a subscene open, the second did not
\* record the option
C21_Witness ==
    /\ Len(returned) >= 2
    /\ returned[1] # <<>>
    /\ current_subscene # ""
    /\ OptionMatch(Strip(prompt_file.lines[1])).ok

-----------------------------------------------------------------------------
(* Properties of the parser's header rules (SpecParse) *)

SceneShaped(raw_line) == BigSceneMatch(Strip(raw_line)).ok
SubsceneShaped(raw_line) == SubsceneMatch(Strip(raw_line)).ok

\* the identifier a subscene-shaped line carries
Candidate(raw_line) == SubsceneMatch(Strip(raw_line)).g1

\* the step opened subscene u of the open scene: u is registered under it
\* (after the subscenes already there, if it is new) with the options it
\* had, and nothing else of the taxonomy changed
SubsceneAccepted(u) ==
    /\ current_scene' = current_scene
    /\ current_subscene' = u
    /\ Keys(scenes') = Keys(scenes)
    /\ Keys(SubscenesOf(scenes', current_scene)) =
          IF u \in SubsceneNames(scenes, current_scene)
          THEN Keys(SubscenesOf(scenes, current_scene))
          ELSE Append(Keys(SubscenesOf(scenes, current_scene)), u)
    /\ \A s \in SceneNames(scenes) :
          /\ s # current_scene => SubscenesOf(scenes', s) = SubscenesOf(scenes, s)
          /\ \A v \in SubsceneNames(scenes', s) :
                OptionsOf(scenes', s, v) = OptionsOf(scenes, s, v)

\* what a subscene-shaped line does
SubsceneLineEffect ==
    IF current_scene # "" /\ StartsWith(Candidate(LineRead), current_scene \o "-")
    THEN SubsceneAccepted(Candidate(LineRead))
    ELSE UNCHANGED <<scenes, current_scene, current_subscene>>

\* C22 as stated: every subscene-shaped line is accepted when a scene is
\* open and its identifier begins with the scene's name and "-", and
\* changes nothing otherwise
C22_EverySubsceneShapedLine ==
    [][(ReadsLine /\ SubsceneShaped(LineRead)) => SubsceneLineEffect]_vars

\* C22: a subscene-shaped line that is not also a scene header changes the
\* parser state only when a scene is open and its identifier begins with
\* the current scene's name followed by "-": then the current subscene
\* becomes that identifier, registered under the open scene with the
\* options it already had; in every other case the taxonomy, the current
\* scene and the current subscene stay as they were.  A line of both
\* shapes is a scene header.
C22_SubsceneLineAcceptedOrIgnored ==
    [][(ReadsLine /\ SubsceneShaped(LineRead) /\ ~SceneShaped(LineRead))
          => SubsceneLineEffect]_vars

\* a subscene header of another scene was read while FanLong-a was open
\* and the option line after it went to FanLong-a
C22_Witness ==
    /\ doc_read = <<"1. [FanLong]", "FanLong-a;", "ChenFu-b;", "Option_A{x};p">>
    /\ current_subscene = "FanLong-a"
    /\ Letters(scenes, "FanLong", "FanLong-a") = {"A"}


\* the name a scene header carries
SceneOf(raw_line) == BigSceneMatch(Strip(raw_line)).g1

\* no option entry of the taxonomy appears, disappears or changes
OptionsUnchanged ==
    \A s \in SceneNames(scenes) \cup SceneNames(scenes') :
       \A u \in SubsceneNames(scenes, s) \cup SubsceneNames(scenes', s) :
          OptionsOf(scenes', s, u) = OptionsOf(scenes, s, u)

\* the line is a subscene header and this step accepts it
AcceptsSubscene ==
    /\ SubsceneShaped(LineRead) /\ ~SceneShaped(LineRead)
    /\ current_scene # ""
    /\ StartsWith(Candidate(LineRead), current_scene \o "-")

\* C23: a scene header line sets the current scene to the captured name,
\* registers the scene (after the scenes already there, with no subscene)
\* only if it is absent, a registered scene keeping all its subscenes and
\* options, and resets the current subscene to unset; while the current
\* subscene is unset only an accepted subscene header sets it, and no
\* option is recorded: an option line read after a scene header and before
\* the next accepted subscene header is never recorded
C23_SceneHeaderOpensAndResets ==
    /\ [][(ReadsLine /\ SceneShaped(LineRead)) =>
             /\ current_scene' = SceneOf(LineRead)
             /\ current_subscene' = ""
             /\ scenes' = IF SceneOf(LineRead) \in SceneNames(scenes)
                          THEN scenes
                          ELSE Append(scenes, [k |-> SceneOf(LineRead), v |-> <<>>])]_vars
    /\ [][(ReadsLine /\ current_subscene = "") =>
             /\ OptionsUnchanged
             /\ current_subscene' # "" => AcceptsSubscene]_vars

\* FanLong was opened again after its subscene FanLong-a was registered:
\* the subscene is kept, and the option line after the header is not
\* recorded
C23_Witness ==
    /\ doc_read = <<"1. [FanLong]", "FanLong-a;", "1. [FanLong]", "Option_A{x};p">>
    /\ current_scene = "FanLong"
    /\ current_subscene = ""
    /\ scenes = <<[k |-> "FanLong", v |-> <<[k |-> "FanLong-a", v |-> <<>>]>>]>>

-----------------------------------------------------------------------------
(* Properties of the enumeration order (SpecOrder) *)

\* the keys of a are the first keys of b, in the same order
KeysKept(a, b) ==
    /\ Len(Keys(a)) <= Len(Keys(b))
    /\ SubSeq(Keys(b), 1, Len(Keys(a))) = Keys(a)

\* at most one key is new in b, and it comes last
OneKeyMore(a, b) == KeysKept(a, b) /\ Len(b) <= Len(a) + 1

\* C24: within each scene the subscenes are enumerated in the order of
\* their first accepted header, and within each subscene the letters in
\* the order of their first recorded option line: a step never removes or
\* moves a key of the taxonomy, of a scene or of a subscene, and a key that
\* is new is put after the keys already there; build_req_key's menu lists
\* the subscenes in that order
C24_KeysInFirstSeenOrder ==
    [][/\ OneKeyMore(scenes, scenes')
       /\ \A s \in SceneNames(scenes) :
             /\ OneKeyMore(SubscenesOf(scenes, s), SubscenesOf(scenes', s))
             /\ \A u \in SubsceneNames(scenes, s) :
                   OneKeyMore(OptionsOf(scenes, s, u), OptionsOf(scenes', s, u))]_vars

\* letter B was recorded before letter A and then given another phrase:
\* B is still enumerated first
C24_Witness ==
    /\ doc_read = <<"1. [FanLong]", "FanLong-b;", "Option_B{x};q",
                    "Option_A{x};p", "Option_B{y};r">>
    /\ Keys(OptionsOf(scenes, "FanLong", "FanLong-b")) = <<"B", "A">>
    /\ Get(OptionsOf(scenes, "FanLong", "FanLong-b"), "B") = "r"


-----------------------------------------------------------------------------
(* Properties of the parser's states (SpecParse) *)

\* C30: after every line, if the current subscene is set then the current
\* scene is set, the current subscene begins with the current scene's name
\* followed by "-" and is registered under the current scene; the current
\* scene, if set, is registered; and once a scene has been opened the
\* parser never returns to the no-scene state, a subscene-open state being
\* left only by a scene header, which leads to scene-open
C30_ParserStateInvariant ==
    /\ [](/\ current_scene # "" => current_scene \in SceneNames(scenes)
          /\ current_subscene # "" =>
                /\ current_scene # ""
                /\ StartsWith(current_subscene, current_scene \o "-")
                /\ current_subscene \in SubsceneNames(scenes, current_scene))
    /\ [][/\ current_scene # "" => current_scene' # ""
          /\ (current_subscene # "" /\ current_subscene' # current_subscene) =>
                \/ /\ ReadsLine /\ SceneShaped(LineRead)
                   /\ current_subscene' = ""
                \/ /\ ReadsLine /\ AcceptsSubscene
                   /\ current_scene' = current_scene
                   /\ current_subscene' = Candidate(LineRead)]_vars

\* the parser went from subscene-open (FanLong-a) to scene-open by the
\* header of ChenFu and then to subscene-open under ChenFu
C30_Witness ==
    /\ doc_read = <<"1. [FanLong]", "FanLong-a;", "2. [ChenFu]", "ChenFu-b;">>
    /\ current_scene = "ChenFu"
    /\ current_subscene = "ChenFu-b"

-----------------------------------------------------------------------------
(* Properties of the loaded data in a GUI run (SpecGui) *)

\* C25: the draw engine holds the corpus and the taxonomy read-only: no
\* selection, draw or feedback submission adds, removes, reorders or
\* modifies a record or a taxonomy entry, and at every point of the run
\* the record list and the taxonomy equal the values loaded at startup
C25_CorpusAndTaxonomyReadOnly ==
    /\ [][items' = items /\ scenes' = scenes]_vars
    /\ [](items = GuiItems /\ scenes = LoadSystemPrompts(GuiDocument))

\* a record was drawn and a feedback record about it was written
C25_Witness ==
    /\ result.outcome = "item"
    /\ last_result_item[Win] # 0
    /\ written # <<>>
    /\ items = GuiItems

-----------------------------------------------------------------------------
(* Properties of the editor console (SpecEditor) *)

\* a step taken on the form tab that removes no entry: a sync of the form
\* into the current entry, if it changes the list at all
FormStep == tab = 0 /\ Len(ed_data') = Len(ed_data)

\* entry i has the same value, of the same type, under key k after the step
KeyKept(i, k) == ed_data'[i][k] = ed_data[i][k]

\* C26: syncing the form tab into the current entry leaves the entry's
\* blind_safe and match_weights values unchanged in value and type and
\* keeps every key not shown in the form; as long as the user has edited
\* nothing, the entry list and the corpus file equal what was loaded
C26_FormSyncKeepsEntry ==
    /\ [][FormStep => \A i \in 1..Len(ed_data) :
                         /\ KeyKept(i, "blind_safe")
                         /\ KeyKept(i, "match_weights")
                         /\ KeyKept(i, "index")]_vars
    /\ [](~ed_touched => /\ ed_data = ed_loaded
                         /\ corpus_file = WholeFile(ListData(ed_loaded)))

\* the part of it about the keys that have no widget
IndexKeyKept ==
    [][FormStep => \A i \in 1..Len(ed_data) : KeyKept(i, "index")]_vars

-----------------------------------------------------------------------------
(* Properties of the batch editor (SpecBatch) *)

\* the step is the user's yes at a batch end
AnswersYes == bt_pc = "confirm" /\ bt_pc' \in {"main", "finished"}

\* tanjing.json holds the list its argument
FileHolds(d) == corpus_file = WholeFile(ListData(d))

\* C27: replacements made within a batch live only in memory until the
\* user confirms at the end of the batch: the corpus file is rewritten
\* exactly in the step where the user answers yes at a batch end, with the
\* list as it is then; while a batch is under way, and after the user
\* declined it, the file holds the list as it was when the batch began
\* (the replacements of the batches before it and none of its own); a
\* pasted replacement that is empty, not valid JSON or not a JSON object
\* leaves the list unchanged
C27_FileWrittenOnlyOnConfirm ==
    /\ [][/\ AnswersYes => corpus_file' = WholeFile(ListData(bt_data))
          /\ ~AnswersYes => corpus_file' = corpus_file
          /\ (bt_pc = "entry" /\ bt_raw' # "object") => bt_data' = bt_data]_vars
    /\ [](bt_pc \in {"entry", "confirm", "declined", "beyond"} => FileHolds(bt_base))

\* a batch that does not begin at the first entry was declined after a
\* replacement: the file has the list as the batch found it
C27_Witness ==
    /\ bt_pc = "declined"
    /\ current_start > 1
    /\ bt_data # bt_base
    /\ FileHolds(bt_base)

-----------------------------------------------------------------------------
(* Properties of the key in a feedback record (SpecGui) *)

\* C28: every feedback record pairs the drawn record's source and index
\* with the routing key under which that record was drawn: the req_key of
\* the record on_save_feedback has built equals the key of the draw that
\* set last_result_item, whatever selection changes and draws (those that
\* found nothing included) came in between
C28_RecordKeyIsDrawnKey ==
    fb_pc[Win] = "write" => PendingRecord(Win).req_key = drawn_key

\* the same for the records whose key was not touched after the draw
RecordKeyOfUntouchedDraw ==
    (fb_pc[Win] = "write" /\ result.outcome = "item"
        /\ req_key = ReqKeyOf(var_scene, var_subscene, var_option,
                              subscene_display_to_internal))
        => PendingRecord(Win).req_key = drawn_key

\* a record of the item drawn under K1 is about to be written with K2
RecordWithOtherKey ==
    /\ fb_pc[Win] = "write"
    /\ drawn_key = K1
    /\ PendingRecord(Win).req_key = K2
    /\ PendingRecord(Win).item = 1

-----------------------------------------------------------------------------
(* Properties of the GUI's selection (SpecSelect) *)

\* the subscene identifiers registered under the selected scene
RegisteredSubscenes == Keys(SubsceneMap(scenes, var_scene))

\* a non-empty key is made of a subscene identifier registered under the
\* selected scene and an option letter
KeyUnderSelectedScene ==
    var_req_key[Win] # "" =>
        \E i \in 1..Len(RegisteredSubscenes), j \in 1..Len(OptionLetters) :
            var_req_key[Win] = RegisteredSubscenes[i] \o "_Option_" \o OptionLetters[j]

\* the displayed labels of the selected scene and its subscene identifiers
\* correspond one to one
LabelsOneToOne ==
    var_scene # "" =>
        /\ Len(subscene_display_to_internal) = Len(RegisteredSubscenes)
        /\ \A i, j \in 1..Len(subscene_display_to_internal) :
              subscene_display_to_internal[i].v = subscene_display_to_internal[j].v
                  => i = j
        /\ \A i \in 1..Len(subscene_display_to_internal) :
              /\ Has(SubsceneMap(scenes, var_scene), subscene_display_to_internal[i].v)
              /\ subscene_display_to_internal[i].k =
                     DisplayName(subscene_display_to_internal[i].v)

SelectionClearsDownstreamOfSubscenes ==
    /\ [][/\ var_scene' # var_scene =>
                /\ var_subscene' = ""
                /\ RegisteredSubscenes' # <<>> => var_option' = ""
                /\ RegisteredSubscenes' = <<>> => var_option' = var_option
          /\ (var_subscene' # var_subscene /\ var_subscene' # "")
                => var_option' = ""]_vars
    /\ [](KeyUnderSelectedScene /\ LabelsOneToOne)

\* a scene without subscenes is selected and an option is still selected
OptionKeptInEmptyScene ==
    /\ var_scene # ""
    /\ RegisteredSubscenes = <<>>
    /\ var_option # ""
    /\ var_req_key[Win] = ""

-----------------------------------------------------------------------------
(* Properties of the editor console's navigation and delete (SpecEditor) *)

\* the step removes an entry from the list
EntryRemoved == Len(ed_data') < Len(ed_data)

\* the list after the step is the list before it without the entry at the
\* (0-based) index idx, the others as they were and in their order
RemovedExactly(idx) ==
    /\ Len(ed_data') = Len(ed_data) - 1
    /\ \A i \in 1..Len(ed_data') :
          ed_data'[i] = IF i <= idx THEN ed_data[i] ELSE ed_data[i + 1]

\* C31: in the editor console, after any sequence of previous, next,
\* go-to, search, apply-JSON, save and delete operations, whenever the
\* list is non-empty 0 <= current_index < number of entries; a confirmed
\* delete removes exactly the current entry, keeps the others in their
\* order and writes the result to the corpus file; a go-to with an
\* out-of-range number changes nothing
C31_IndexInRangeDeleteExact ==
    /\ [](ed_data # <<>> => 0 <= current_index /\ current_index < Len(ed_data))
    /\ [][/\ EntryRemoved =>
                /\ RemovedExactly(current_index)
                /\ corpus_file' = WholeFile(ListData(ed_data'))
          /\ \A num \in GotoNumbers :
                (~(1 <= num /\ num <= Len(ed_data)) /\ Goto(num))
                    => UNCHANGED <<ed_data, current_index, corpus_file,
                                   widgets, json_text, tab>>]_vars

\* the last of two entries was shown and deleted: the first is left, it is
\* the current one and the file holds it alone
C31_Witness ==
    /\ Len(ed_loaded) = 2
    /\ ed_loaded[1]["index"] = JInt(1)
    /\ ed_loaded[2]["index"] = JAbsent
    /\ Len(ed_data) = 1
    /\ ed_data[1]["index"] = JInt(1)
    /\ current_index = 0
    /\ corpus_file = WholeFile(ListData(ed_data))

-----------------------------------------------------------------------------
(* Properties of the batch editor's loop (SpecBatchYes) *)

\* main() has left its loop
LoopEnded == bt_pc \in {"finished", "beyond"}

\* the indices presented so far go up by one: no entry was presented
\* twice and none between two presented ones was skipped
ShownContiguous ==
    \A k \in 1..(Len(bt_shown) - 1) : bt_shown[k + 1] = bt_shown[k] + 1

\* C32: for every start >= 1 and batch size >= 1, if the user confirms
\* every batch the main loop ends after finitely many batches; the
\* batches cover disjoint, contiguous index ranges, beginning at the start
\* position and, when the loop has ended, reaching the last entry, so that
\* each entry from the start position to the last is presented exactly
\* once; if the start position is beyond the last entry the loop ends
\* with nothing presented and the file not written
C32_BatchesCoverOnceAndTerminate ==
    /\ <>LoopEnded
    /\ [](ShownContiguous)
    /\ [](bt_pc = "finished" =>
              /\ bt_shown # <<>>
              /\ bt_shown[Len(bt_shown)] = Len(bt_data) - 1)
    /\ [](bt_pc = "beyond" => bt_shown = <<>> /\ bt_saves = 0)
    /\ [][/\ (bt_shown = <<>> /\ bt_shown' # <<>>)
                => bt_shown' = <<current_start - 1>>
          /\ current_start' # current_start => bt_shown # <<>>
          /\ (bt_pc = "main" /\ current_start > Len(bt_data))
                => bt_pc' = "beyond" /\ corpus_file' = corpus_file]_vars

\* two entries were presented in two batches of one, each confirmed and
\* saved, and the loop has ended
C32_Witness ==
    /\ bt_pc = "finished"
    /\ batch_size = 1
    /\ bt_shown = <<0, 1>>
    /\ bt_saves = 2
    /\ current_start = 3

=============================================================================
